---- MODULE Spec2Model ----
(***************************************************************************)
(* Model of PhysicsEquationExplainer (src/equation_explainer.py) and of    *)
(* the records of src/models.py.                                           *)
(*                                                                         *)
(* A text is a sequence of tokens; the text it stands for is the           *)
(* concatenation of its tokens.  Python values (None, bool, int, str,      *)
(* list, dict) are tagged records, a dict being a function from its keys.  *)
(***************************************************************************)
EXTENDS Integers, Sequences, FiniteSets, TLC

VARIABLES model, pc, request, prompt, calls, content, json_str, explanation_data,
          result, error, api_key, env_key, constructed, available,
          inv, built,
          argv, cli_pc, todo, sections, stdout, exit_status, saved, explained, ran,
          parsed, upstream, fault

vars == <<model, pc, request, prompt, calls, content, json_str, explanation_data,
          result, error, api_key, env_key, constructed, available,
          inv, built,
          argv, cli_pc, todo, sections, stdout, exit_status, saved, explained, ran,
          parsed, upstream, fault>>

\* What the caller holds: the arguments and the environment of __init__, the
\* outcome of the last ExplanationRequest(...), the last list of equations.
caller_vars == <<api_key, env_key, constructed, available>>

\* The process of cli.py: sys.argv[1:], the position in main, the handler calls
\* still to make, the four texts of the analysis, what was printed, the exit
\* status, the files saved, the objects given to explain_equation, the handlers
\* run, whether parse_args was called, the reply the collaborator has ready,
\* and the output function of cli_utils that fails in this run, if any.
cli_vars == <<argv, cli_pc, todo, sections, stdout, exit_status, saved, explained, ran,
              parsed, upstream, fault>>

\* What happens around the single caller: the invocations of several callers
\* on one explainer (inv), the outcome of the last EquationExplanation(...) a
\* caller evaluated itself (built), and the command-line process.
driver_vars == <<inv, built, cli_vars>>

(***************************************************************************)
(* Bounds of the model.                                                    *)
(***************************************************************************)
MaxConcepts == 2

(***************************************************************************)
(* Python / JSON values.                                                   *)
(***************************************************************************)
None == [t |-> "null"]
True == [t |-> "bool", b |-> TRUE]
False == [t |-> "bool", b |-> FALSE]
Num(n) == [t |-> "num", n |-> n]
Str(s) == [t |-> "str", s |-> s]
List(l) == [t |-> "list", l |-> l]
Dict(o) == [t |-> "obj", o |-> o]

EmptyDict == [k \in {} |-> None]

IsStr(v) == v.t = "str"
IsDict(v) == v.t = "obj"

\* Python truthiness: None, "", False, 0 and the empty collections are falsy.
Truthy(v) ==
    CASE v.t = "null" -> FALSE
      [] v.t = "str" -> v.s # ""
      [] v.t = "bool" -> v.b
      [] v.t = "num" -> v.n # 0
      [] v.t = "list" -> v.l # <<>>
      [] v.t = "obj" -> DOMAIN v.o # {}

\* The text an f-string puts for the value v, str(v): a str as it is, None,
\* a bool and an int by their names.
PyStr(v) ==
    LET digit == <<"0", "1", "2", "3", "4", "5", "6", "7", "8", "9">>
        decimal[n \in Nat] ==
            IF n < 10 THEN digit[n + 1] ELSE decimal[n \div 10] \o digit[(n % 10) + 1]
    IN  CASE v.t = "str" -> v.s
          [] v.t = "null" -> "None"
          [] v.t = "bool" -> IF v.b THEN "True" ELSE "False"
          [] v.t = "num" -> IF v.n < 0 THEN "-" \o decimal[-v.n] ELSE decimal[v.n]

\* A dict display that unpacks a and then b: the keys of both, b's value where
\* both have the key.
Merge(a, b) == [k \in DOMAIN a \union DOMAIN b |-> IF k \in DOMAIN b THEN b[k] ELSE a[k]]

(***************************************************************************)
(* Tokens.  String literals are tokens of their own; StringValue gives the *)
(* text a literal denotes (its quotes removed, its escapes resolved).      *)
(***************************************************************************)
Whitespace == {"\n", " "}

StringValue ==
    "\"equation_name\"" :> "equation_name" @@
    "\"equation\"" :> "equation" @@
    "\"simple_explanation\"" :> "simple_explanation" @@
    "\"detailed_explanation\"" :> "detailed_explanation" @@
    "\"real_world_example\"" :> "real_world_example" @@
    "\"key_concepts\"" :> "key_concepts" @@
    "\"introduction\"" :> "introduction" @@
    "\"overview\"" :> "overview" @@
    "\"significance\"" :> "significance" @@
    "\"context\"" :> "context" @@
    "\"Simple test\"" :> "Simple test" @@
    "\"Detailed test\"" :> "Detailed test" @@
    "\"Example test\"" :> "Example test" @@
    "\"force\"" :> "force" @@
    "\"mass\"" :> "mass" @@
    "\"Echoed Name\"" :> "Echoed Name" @@
    "\"x = y\"" :> "x = y" @@
    "\"Overview\"" :> "Overview" @@
    "\"A \\\"b\\\"\"" :> "A \"b\"" @@
    "\"\\u0041 \\\"b\\\"\"" :> "A \"b\"" @@
    "\"\"" :> ""

\* The literals json.loads reads and json.dumps never writes: an ASCII letter
\* written as a \u escape.
EscapedLetterLiterals == {"\"\\u0041 \\\"b\\\"\""}

\* json.dumps of a str: the literal with a backslash before each quote and
\* every other character of these texts as it is.
StringLiteral(s) ==
    CHOOSE lit \in DOMAIN StringValue \ EscapedLetterLiterals : StringValue[lit] = s

\* The number tokens and the int each denotes.
NumberValue == "0" :> 0 @@ "1" :> 1 @@ "2" :> 2

NumberLiteral(n) == CHOOSE lit \in DOMAIN NumberValue : NumberValue[lit] = n

(***************************************************************************)
(* json.loads: a recursive-descent decoder over the tokens.  A result is   *)
(* [ok |-> TRUE, val, next] or [ok |-> FALSE] (json.JSONDecodeError).      *)
(***************************************************************************)
Fail == [ok |-> FALSE]

RECURSIVE SkipWs(_, _)
SkipWs(toks, i) ==
    IF i <= Len(toks) /\ toks[i] \in Whitespace THEN SkipWs(toks, i + 1) ELSE i

RECURSIVE ParseValue(_, _)
RECURSIVE ParseMembers(_, _, _)
RECURSIVE ParseElements(_, _, _)

\* A value starting at token i.
ParseValue(toks, i) ==
    IF i > Len(toks) THEN Fail
    ELSE LET tok == toks[i] IN
         CASE tok \in DOMAIN StringValue ->
                  [ok |-> TRUE, val |-> Str(StringValue[tok]), next |-> i + 1]
           [] tok = "null" -> [ok |-> TRUE, val |-> None, next |-> i + 1]
           [] tok = "true" -> [ok |-> TRUE, val |-> True, next |-> i + 1]
           [] tok = "false" -> [ok |-> TRUE, val |-> False, next |-> i + 1]
           [] tok \in DOMAIN NumberValue ->
                  [ok |-> TRUE, val |-> Num(NumberValue[tok]), next |-> i + 1]
           [] tok = "{" ->
                  LET j == SkipWs(toks, i + 1) IN
                  IF j <= Len(toks) /\ toks[j] = "}"
                  THEN [ok |-> TRUE, val |-> Dict(EmptyDict), next |-> j + 1]
                  ELSE ParseMembers(toks, j, EmptyDict)
           [] tok = "[" ->
                  LET j == SkipWs(toks, i + 1) IN
                  IF j <= Len(toks) /\ toks[j] = "]"
                  THEN [ok |-> TRUE, val |-> List(<<>>), next |-> j + 1]
                  ELSE ParseElements(toks, j, <<>>)
           [] OTHER -> Fail

\* key : value pairs from token i (a key is expected there) up to "}".
ParseMembers(toks, i, acc) ==
    IF i > Len(toks) \/ toks[i] \notin DOMAIN StringValue THEN Fail
    ELSE LET key == StringValue[toks[i]]
             c == SkipWs(toks, i + 1)
         IN  IF c > Len(toks) \/ toks[c] # ":" THEN Fail
             ELSE LET v == ParseValue(toks, SkipWs(toks, c + 1)) IN
                  IF ~v.ok THEN Fail
                  ELSE LET acc2 == Merge(acc, key :> v.val)
                           e == SkipWs(toks, v.next)
                       IN  IF e > Len(toks) THEN Fail
                           ELSE IF toks[e] = "}"
                                THEN [ok |-> TRUE, val |-> Dict(acc2), next |-> e + 1]
                           ELSE IF toks[e] = ","
                                THEN ParseMembers(toks, SkipWs(toks, e + 1), acc2)
                           ELSE Fail

\* Values from token i (a value is expected there) up to "]".
ParseElements(toks, i, acc) ==
    LET v == ParseValue(toks, i) IN
    IF ~v.ok THEN Fail
    ELSE LET acc2 == Append(acc, v.val)
             e == SkipWs(toks, v.next)
         IN  IF e > Len(toks) THEN Fail
             ELSE IF toks[e] = "]"
                  THEN [ok |-> TRUE, val |-> List(acc2), next |-> e + 1]
             ELSE IF toks[e] = ","
                  THEN ParseElements(toks, SkipWs(toks, e + 1), acc2)
             ELSE Fail

\* json.loads(s): one value, whitespace around it, nothing else.
JsonLoads(toks) ==
    LET v == ParseValue(toks, SkipWs(toks, 1)) IN
    IF v.ok /\ SkipWs(toks, v.next) = Len(toks) + 1
    THEN [ok |-> TRUE, val |-> v.val]
    ELSE Fail

(***************************************************************************)
(* json.dumps, as the tests use it to build the collaborator's replies.    *)
(* The keys of a dict are written in the order of KeyOrder, the items      *)
(* separated by a comma and a space, a key and its value by a colon and a  *)
(* space (the default separators).                                         *)
(***************************************************************************)
KeyOrder == <<"equation_name", "equation", "simple_explanation", "detailed_explanation",
              "real_world_example", "key_concepts", "introduction", "overview",
              "significance", "context">>

RECURSIVE JsonDumps(_)
RECURSIVE DumpElements(_)
RECURSIVE DumpMembers(_, _, _)

DumpElements(l) ==
    IF l = <<>> THEN <<>>
    ELSE JsonDumps(Head(l)) \o (IF Len(l) > 1 THEN <<",", " ">> ELSE <<>>)
         \o DumpElements(Tail(l))

\* The members of o whose keys are at KeyOrder[i..]; first says none was written yet.
DumpMembers(o, i, first) ==
    IF i > Len(KeyOrder) THEN <<>>
    ELSE IF KeyOrder[i] \notin DOMAIN o THEN DumpMembers(o, i + 1, first)
    ELSE (IF first THEN <<>> ELSE <<",", " ">>)
         \o <<StringLiteral(KeyOrder[i]), ":", " ">> \o JsonDumps(o[KeyOrder[i]])
         \o DumpMembers(o, i + 1, FALSE)

JsonDumps(v) ==
    CASE v.t = "null" -> <<"null">>
      [] v.t = "bool" -> <<IF v.b THEN "true" ELSE "false">>
      [] v.t = "num" -> <<NumberLiteral(v.n)>>
      [] v.t = "str" -> <<StringLiteral(v.s)>>
      [] v.t = "list" -> <<"[">> \o DumpElements(v.l) \o <<"]">>
      [] v.t = "obj" -> <<"{">> \o DumpMembers(v.o, 1, TRUE) \o <<"}">>

(***************************************************************************)
(* re.search of the fenced-block pattern in content: the leftmost opening  *)
(* marker (three backticks, json, newline) that some closing marker        *)
(* (newline, three backticks) follows, and the nearest such closing marker,*)
(* the group between them being lazy.                                      *)
(***************************************************************************)
\* The token that stands for the three backticks of a fence (a backtick cannot
\* be written in a string of this language).
Backticks == "<3 backticks>"

IsOpenAt(c, i) ==
    i + 2 <= Len(c) /\ c[i] = Backticks /\ c[i + 1] = "json" /\ c[i + 2] = "\n"

IsCloseAt(c, j) ==
    j + 1 <= Len(c) /\ c[j] = "\n" /\ c[j + 1] = Backticks

\* The matches the pattern has at start i: the positions of a closing marker.
ClosesAfter(c, i) == {j \in (i + 3)..Len(c) : IsCloseAt(c, j)}

Min(S) == CHOOSE x \in S : \A y \in S : x <= y

\* A variant with a greedy group: the match runs to the last closing marker.
ReSearchGreedy(c) ==
    LET starts == {i \in 1..Len(c) : IsOpenAt(c, i) /\ ClosesAfter(c, i) # {}} IN
    IF starts = {} THEN [found |-> FALSE]
    ELSE LET i == Min(starts)
             j == CHOOSE x \in ClosesAfter(c, i) : \A y \in ClosesAfter(c, i) : y <= x
         IN  [found |-> TRUE, start |-> i, end |-> j, group1 |-> SubSeq(c, i + 3, j - 1)]

\* [found |-> FALSE], or the match: the opening marker at start, group(1) = c[start+3 .. end-1].
ReSearch(c) ==
    LET starts == {i \in 1..Len(c) : IsOpenAt(c, i) /\ ClosesAfter(c, i) # {}} IN
    IF starts = {} THEN [found |-> FALSE]
    ELSE LET i == Min(starts)
             j == Min(ClosesAfter(c, i))
         IN  [found |-> TRUE, start |-> i, end |-> j, group1 |-> SubSeq(c, i + 3, j - 1)]

\* A variant that takes the whole match, markers included, for the group.
JsonStrWholeMatch(c) ==
    LET json_match == ReSearch(c) IN
    IF json_match.found THEN SubSeq(c, json_match.start, json_match.end + 1) ELSE c

\* json_str = json_match.group(1) if json_match else content
JsonStr(c) == LET json_match == ReSearch(c) IN
              IF json_match.found THEN json_match.group1 ELSE c

\* The text a sequence of tokens stands for.
RECURSIVE Concat(_)
Concat(toks) == IF toks = <<>> THEN "" ELSE Head(toks) \o Concat(Tail(toks))

(***************************************************************************)
(* ExplanationRequest (models.py): equation, equation_name, context,       *)
(* difficulty_level.                                                       *)
(***************************************************************************)
Equations == {"F = ma", "E = mc^2"}
EquationNames == {None, Str(""), Str("Newton's Second Law")}
Contexts == {None, Str("Classical mechanics")}
DifficultyLevels == {"beginner", "intermediate", "advanced"}

ExplanationRequest ==
    [equation : Equations, equation_name : EquationNames, context : Contexts,
     difficulty_level : DifficultyLevels]

NoRequest == [equation |-> "", equation_name |-> None, context |-> None,
              difficulty_level |-> "intermediate"]

(***************************************************************************)
(* _build_prompt: the prompt as the sequence of its parts.                 *)
(***************************************************************************)
DifficultyGuidance ==
    "beginner" :> "Use simple language and avoid advanced terminology. Focus on intuition." @@
    "intermediate" :> "Balance simplicity with technical accuracy. Include mathematical details." @@
    "advanced" :> "Use precise technical language and advanced concepts. Dive deep into applications."

\* json.dumps(EquationExplanation.model_json_schema(), indent=2), a fixed text.
SchemaText == "<EquationExplanation.model_json_schema()>"

\* The prompt text around a guidance text and the two optional lines.
PromptText(req, guidance, equation_name_info, context_info) ==
    <<"Explain the following physics equation in detail:\n\nEquation: ", req.equation>>
    \o equation_name_info \o context_info
    \o <<"\n\nPlease provide your response in the following JSON format:\n", SchemaText,
         "\n\nDifficulty Level: ", req.difficulty_level,
         "\nGuidance: ", guidance,
         "\n\nReturn ONLY valid JSON, no additional text.">>

NameInfo(req) ==
    IF Truthy(req.equation_name) THEN <<"\nEquation Name: ", req.equation_name.s>> ELSE <<>>

ContextInfo(req) ==
    IF Truthy(req.context) THEN <<"\nContext: ", req.context.s>> ELSE <<>>

\* A variant that gives every level the intermediate guidance.
BuildPromptOneGuidance(req) ==
    PromptText(req, DifficultyGuidance["intermediate"], NameInfo(req), ContextInfo(req))

\* A variant that matches the level without regard to case.
BuildPromptAnyCase(req) ==
    LET level == IF req.difficulty_level = "Beginner" THEN "beginner" ELSE req.difficulty_level
        guidance == IF level \in DOMAIN DifficultyGuidance
                    THEN DifficultyGuidance[level]
                    ELSE DifficultyGuidance["intermediate"]
    IN  PromptText(req, guidance, NameInfo(req), ContextInfo(req))

\* A variant that writes the two optional lines whenever the field is not None.
BuildPromptNotNone(req) ==
    LET guidance == IF req.difficulty_level \in DOMAIN DifficultyGuidance
                    THEN DifficultyGuidance[req.difficulty_level]
                    ELSE DifficultyGuidance["intermediate"]
    IN  PromptText(req, guidance,
                   IF req.equation_name # None
                   THEN <<"\nEquation Name: ", req.equation_name.s>> ELSE <<>>,
                   IF req.context # None THEN <<"\nContext: ", req.context.s>> ELSE <<>>)

BuildPrompt(req) ==
    LET guidance == IF req.difficulty_level \in DOMAIN DifficultyGuidance
                    THEN DifficultyGuidance[req.difficulty_level]
                    ELSE DifficultyGuidance["intermediate"]
        context_info == IF Truthy(req.context)
                        THEN <<"\nContext: ", req.context.s>> ELSE <<>>
        equation_name_info == IF Truthy(req.equation_name)
                              THEN <<"\nEquation Name: ", req.equation_name.s>> ELSE <<>>
    IN  <<"Explain the following physics equation in detail:\n\nEquation: ", req.equation>>
        \o equation_name_info \o context_info
        \o <<"\n\nPlease provide your response in the following JSON format:\n", SchemaText,
             "\n\nDifficulty Level: ", req.difficulty_level,
             "\nGuidance: ", guidance,
             "\n\nReturn ONLY valid JSON, no additional text.">>

(***************************************************************************)
(* _parse_response(content, request).  The outcome is the dict returned,   *)
(* or a TypeError when the decoded value is no mapping and cannot be       *)
(* unpacked into the dict that is returned.                                *)
(***************************************************************************)
\* A variant whose fallback texts are the candidate payload, not the raw text.
FallbackDataOfPayload(c) ==
    "simple_explanation" :> Str(Concat(JsonStr(c))) @@
    "detailed_explanation" :> Str(Concat(JsonStr(c))) @@
    "real_world_example" :> Str("Example not available") @@
    "key_concepts" :> List(<<>>)

FallbackData(c) ==
    "simple_explanation" :> Str(Concat(c)) @@
    "detailed_explanation" :> Str(Concat(c)) @@
    "real_world_example" :> Str("Example not available") @@
    "key_concepts" :> List(<<>>)

\* The try block: json.loads(json_str), the fallback dict on JSONDecodeError.
DecodeOrFallback(js, c) ==
    LET loaded == JsonLoads(js) IN
    IF loaded.ok THEN loaded.val ELSE Dict(FallbackData(c))

\* A variant that takes the label only for a name that is None.
RequestDataNotNone(req) ==
    "equation_name" :> (IF req.equation_name # None THEN req.equation_name
                        ELSE Str("Physics Equation")) @@
    "equation" :> Str(req.equation)

RequestData(req) ==
    "equation_name" :> (IF Truthy(req.equation_name) THEN req.equation_name
                        ELSE Str("Physics Equation")) @@
    "equation" :> Str(req.equation)

\* The dict returned: the request's two entries, then the entries of explanation_data.
ReturnedDict(req, data) == Merge(RequestData(req), data)

ParseResponseResult(c, req) ==
    LET js == JsonStr(c)
        data == DecodeOrFallback(js, c)
    IN  IF IsDict(data)
        THEN [raised |-> FALSE, json_str |-> js, data |-> ReturnedDict(req, data.o)]
        ELSE [raised |-> TRUE, json_str |-> js, data |-> EmptyDict]

(***************************************************************************)
(* EquationExplanation built from explanation_data (models.py): the        *)
(* validation of the fields and the record built.  Keys that are no field  *)
(* are ignored.                                                            *)
(***************************************************************************)
TextFields == {"equation_name", "equation", "simple_explanation", "detailed_explanation",
               "real_world_example"}
RequiredFields == TextFields \union {"key_concepts"}
IntroductionTextFields == {"equation_name", "equation", "overview", "significance", "context"}

HasStr(d, k) == k \in DOMAIN d /\ IsStr(d[k])

IsStrList(v) == v.t = "list" /\ \A i \in 1..Len(v.l) : IsStr(v.l[i])

IsStrDict(v) == IsDict(v) /\ \A k \in DOMAIN v.o : IsStr(v.o[k])

ValidIntroduction(v) ==
    /\ IsDict(v)
    /\ \A k \in IntroductionTextFields : HasStr(v.o, k)
    /\ "key_variables" \in DOMAIN v.o => IsStrDict(v.o["key_variables"])

IntroductionModel(v) ==
    Dict([k \in IntroductionTextFields \union {"key_variables"} |->
            IF k \in DOMAIN v.o THEN v.o[k] ELSE Dict(EmptyDict)])

\* A variant in which key_concepts has a default and may be left out.
ValidExplanationOptionalConcepts(d) ==
    /\ \A k \in TextFields : HasStr(d, k)
    /\ "key_concepts" \in DOMAIN d => IsStrList(d["key_concepts"])
    /\ "introduction" \in DOMAIN d =>
           d["introduction"] = None \/ ValidIntroduction(d["introduction"])

ValidExplanation(d) ==
    /\ \A k \in TextFields : HasStr(d, k)
    /\ "key_concepts" \in DOMAIN d /\ IsStrList(d["key_concepts"])
    /\ "introduction" \in DOMAIN d =>
           d["introduction"] = None \/ ValidIntroduction(d["introduction"])

EquationExplanation(d) ==
    [k \in RequiredFields \union {"introduction"} |->
        IF k \in DOMAIN d
        THEN (IF k = "introduction" /\ d[k] # None THEN IntroductionModel(d[k]) ELSE d[k])
        ELSE None]

(***************************************************************************)
(* The replies of the completion collaborator: any text.  The texts drawn  *)
(* here are JSON encodings of payloads (full, partial, ill-typed, other    *)
(* than an object) and malformed texts, bare or inside a fence.            *)
(***************************************************************************)
Concepts == {"force", "mass"}

SeqsUpTo(S, n) == UNION {[1..k -> S] : k \in 0..n}

ConceptLists == SeqsUpTo(Concepts, MaxConcepts)

StrList(l) == List([i \in 1..Len(l) |-> Str(l[i])])

PayloadFields == {"simple_explanation", "detailed_explanation", "real_world_example",
                  "key_concepts"}

Body(simple, kc) ==
    "simple_explanation" :> Str(simple) @@
    "detailed_explanation" :> Str("Detailed test") @@
    "real_world_example" :> Str("Example test") @@
    "key_concepts" :> StrList(kc)

Echo == "equation_name" :> Str("Echoed Name") @@ "equation" :> Str("x = y")

Introduction ==
    Dict([k \in IntroductionTextFields |->
            CASE k = "equation_name" -> Str("Echoed Name")
              [] k = "equation" -> Str("x = y")
              [] OTHER -> Str("Overview")])

Restrict(f, D) == [k \in D \intersect DOMAIN f |-> f[k]]

FullPayloads ==
    {Restrict(Body("Simple test", kc) @@ Echo @@ ("introduction" :> Introduction),
              PayloadFields \union echoed \union tail) :
        kc \in ConceptLists, echoed \in SUBSET DOMAIN Echo,
        tail \in SUBSET {"introduction"}}
    \union {Body("A \"b\"", <<>>)}

PartialPayloads ==
    {Restrict(Body("Simple test", <<"force">>) @@ Echo, present \union echoed) :
        present \in (SUBSET PayloadFields) \ {PayloadFields},
        echoed \in {{}, DOMAIN Echo}}

IllTypedPayloads ==
    {Merge(Body("Simple test", <<"force">>), "simple_explanation" :> None),
     Merge(Body("Simple test", <<"force">>), "key_concepts" :> Str("force")),
     Merge(Body("Simple test", <<"force">>), "key_concepts" :> List(<<Num(1)>>)),
     Body("Simple test", <<"force">>) @@ ("introduction" :> None)}

NonObjects == {List(<<Num(1)>>), List(<<>>), Num(1), Str("force"), None, True}

\* A full payload whose equation_name is the empty text.
EmptyNamePayload == Body("Simple test", <<"force">>) @@ ("equation_name" :> Str(""))

Payloads == {Dict(d) : d \in FullPayloads \union PartialPayloads \union IllTypedPayloads
                              \union {EmptyNamePayload}}
            \union NonObjects

TestPayload == JsonDumps(Dict(Body("Simple test", <<"force", "mass">>)))

Malformed ==
    {<<>>, <<"This is not JSON">>, <<"{">>,
     SubSeq(TestPayload, 1, Len(TestPayload) - 1),
     TestPayload \o TestPayload,
     <<"[", "1", ",", " ", "]">>}

\* A reply written by hand: the payload with the quoted text, its letter A as
\* a \u escape.
EscapedReply ==
    LET dumped == JsonDumps(Dict(Body("A \"b\"", <<>>))) IN
    [i \in 1..Len(dumped) |-> IF dumped[i] = StringLiteral("A \"b\"")
                                THEN "\"\\u0041 \\\"b\\\"\"" ELSE dumped[i]]

PayloadTexts == {JsonDumps(v) : v \in Payloads} \union Malformed \union {EscapedReply}

OpenMarker == <<Backticks, "json", "\n">>
CloseMarker == <<"\n", Backticks>>

\* The payload alone or as the content of a fenced block.
Plain(p) == {p, OpenMarker \o p \o CloseMarker}

\* Prose, whitespace, fences without the tag or without a closing marker, two blocks.
Wrappings(p) ==
    {<<"\n">> \o p \o <<" ", "\n">>,
     <<"Here is the explanation:", "\n">> \o OpenMarker \o p \o CloseMarker
         \o <<"\n", "Hope this helps">>,
     <<Backticks, "\n">> \o p \o CloseMarker,
     OpenMarker \o p \o <<Backticks>>,
     OpenMarker \o p,
     OpenMarker \o p \o CloseMarker \o <<"\n">> \o OpenMarker \o TestPayload \o CloseMarker}

WrappedTexts ==
    {JsonDumps(v) : v \in {Dict(Body("Simple test", <<"force">>) @@ Echo),
                           Dict(Restrict(Body("Simple test", <<"force">>),
                                         {"simple_explanation"})),
                           List(<<Num(1)>>), None}}
    \union Malformed

Contents == UNION {Plain(p) : p \in PayloadTexts} \union UNION {Wrappings(p) : p \in WrappedTexts}

\* The errors the collaborator raises (litellm exceptions).
UpstreamErrors == {"APIConnectionError", "RateLimitError"}

(***************************************************************************)
(* The explainer and one invocation of explain_equation, step by step.     *)
(***************************************************************************)
SystemMessage == "You are an expert physics teacher. Explain equations clearly and accurately."

Temperature == "0.7"

NoResult == EmptyDict

\* No ExplanationRequest(...) was evaluated yet.
NotConstructed == [state |-> "none"]

\* No command-line process.
NoCli ==
    /\ argv = <<>>
    /\ cli_pc = "none"
    /\ todo = <<>>
    /\ sections = <<>>
    /\ stdout = <<>>
    /\ exit_status = -1
    /\ saved = <<>>
    /\ explained = <<>>
    /\ ran = <<>>
    /\ parsed = FALSE
    /\ upstream = <<>>
    /\ fault = [func |-> "none", call |-> 0]

\* No concurrent callers and no command-line process: the explainer is used by
\* the one caller of ExplainEquation .. Done.
NoDrivers == inv = <<>> /\ built = NotConstructed /\ NoCli

\* The explainer after __init__, no invocation under way.
AfterInit ==
    /\ model = "gemini/gemini-2.5-flash"
    /\ pc = "idle"
    /\ request = NoRequest
    /\ prompt = <<>>
    /\ calls = <<>>
    /\ content = <<>>
    /\ json_str = <<>>
    /\ explanation_data = EmptyDict
    /\ result = NoResult
    /\ error = "none"
    /\ api_key = None
    /\ env_key = Str("env_key")
    /\ constructed = NotConstructed
    /\ available = <<>>

Init == AfterInit /\ NoDrivers

\* explain_equation is entered and the prompt is built.
ExplainEquation(req) ==
    /\ pc = "idle"
    /\ pc' = "prompted"
    /\ request' = req
    /\ prompt' = BuildPrompt(req)
    /\ calls' = <<>>
    /\ content' = <<>>
    /\ json_str' = <<>>
    /\ explanation_data' = EmptyDict
    /\ result' = NoResult
    /\ error' = "none"
    /\ UNCHANGED <<driver_vars, caller_vars, model>>

\* A variant whose user message is the bare equation, not the prompt built.
CompletionCallBareEquation(outcome) ==
    [model |-> model,
     messages |-> <<[role |-> "system", content |-> <<SystemMessage>>],
                    [role |-> "user", content |-> <<request.equation>>]>>,
     temperature |-> Temperature,
     outcome |-> outcome]

\* The arguments of litellm.completion, with the outcome of the call.
CompletionCall(outcome) ==
    [model |-> model,
     messages |-> <<[role |-> "system", content |-> <<SystemMessage>>],
                    [role |-> "user", content |-> prompt]>>,
     temperature |-> Temperature,
     outcome |-> outcome]

\* litellm.completion returns a response whose content is text.
CompletionReturns(text) ==
    /\ pc = "prompted"
    /\ calls' = Append(calls, CompletionCall("text"))
    /\ content' = text
    /\ pc' = "completed"
    /\ UNCHANGED <<driver_vars, caller_vars, model, request, prompt, json_str, explanation_data, result, error>>

\* A variant that makes a second attempt before it gives up.
CompletionRaisesRetry(e) ==
    /\ pc = "prompted"
    /\ calls' = calls \o <<CompletionCall(e), CompletionCall(e)>>
    /\ error' = e
    /\ pc' = "raised"
    /\ UNCHANGED <<driver_vars, caller_vars, model, request, prompt, content, json_str, explanation_data, result>>

\* A variant that catches the error and goes on to parse an empty reply.
CompletionRaisesSwallowed(e) ==
    /\ pc = "prompted"
    /\ calls' = Append(calls, CompletionCall(e))
    /\ content' = <<>>
    /\ pc' = "completed"
    /\ UNCHANGED <<driver_vars, caller_vars, model, request, prompt, json_str, explanation_data, result, error>>

\* litellm.completion raises: nothing catches it.
CompletionRaises(e) ==
    /\ pc = "prompted"
    /\ calls' = Append(calls, CompletionCall(e))
    /\ error' = e
    /\ pc' = "raised"
    /\ UNCHANGED <<driver_vars, caller_vars, model, request, prompt, content, json_str, explanation_data, result>>

\* explanation_data = self._parse_response(content, request)
ParseResponse ==
    /\ pc = "completed"
    /\ LET r == ParseResponseResult(content, request) IN
       /\ json_str' = r.json_str
       /\ IF r.raised
          THEN /\ error' = "TypeError"
               /\ pc' = "raised"
               /\ UNCHANGED explanation_data
          ELSE /\ explanation_data' = r.data
               /\ pc' = "parsed"
               /\ UNCHANGED error
    /\ UNCHANGED <<driver_vars, caller_vars, model, request, prompt, calls, content, result>>

\* return EquationExplanation built from explanation_data: validation, then the record.
Construct ==
    /\ pc = "parsed"
    /\ IF ValidExplanation(explanation_data)
       THEN /\ result' = EquationExplanation(explanation_data)
            /\ pc' = "returned"
            /\ UNCHANGED error
       ELSE /\ error' = "ValidationError"
            /\ pc' = "raised"
            /\ UNCHANGED result
    /\ UNCHANGED <<driver_vars, caller_vars, model, request, prompt, calls, content, json_str, explanation_data>>

\* The caller has the record or the error; the locals of the call are gone.
Done ==
    /\ pc \in {"returned", "raised"}
    /\ pc' = "idle"
    /\ request' = NoRequest
    /\ prompt' = <<>>
    /\ calls' = <<>>
    /\ content' = <<>>
    /\ json_str' = <<>>
    /\ explanation_data' = EmptyDict
    /\ result' = NoResult
    /\ error' = "none"
    /\ UNCHANGED <<driver_vars, caller_vars, model>>

Next ==
    \/ \E req \in ExplanationRequest : ExplainEquation(req)
    \/ \E text \in Contents : CompletionReturns(text)
    \/ \E e \in UpstreamErrors : CompletionRaises(e)
    \/ ParseResponse
    \/ Construct
    \/ Done

Spec == Init /\ [][Next]_vars

(***************************************************************************)
(* The calls a caller makes around explain_equation: the constructor of    *)
(* the explainer, the constructor of ExplanationRequest, and               *)
(* get_available_equations.                                                *)
(***************************************************************************)
ApiKeys == {None, Str("test_key")}
EnvKeys == {None, Str("env_key")}

\* No explainer exists yet; GOOGLE_API_KEY is set or unset in the environment.
InitApi ==
    /\ model = ""
    /\ pc = "start"
    /\ request = NoRequest
    /\ prompt = <<>>
    /\ calls = <<>>
    /\ content = <<>>
    /\ json_str = <<>>
    /\ explanation_data = EmptyDict
    /\ result = NoResult
    /\ error = "none"
    /\ api_key = None
    /\ env_key \in EnvKeys
    /\ constructed = NotConstructed
    /\ available = <<>>
    /\ NoDrivers

\* PhysicsEquationExplainer(api_key): sets self.model; reads neither the
\* argument nor the environment, and raises nothing.
NewExplainer(key) ==
    /\ pc = "start"
    /\ api_key' = key
    /\ model' = "gemini/gemini-2.5-flash"
    /\ pc' = "idle"
    /\ UNCHANGED <<driver_vars, request, prompt, calls, content, json_str, explanation_data, result,
                   error, env_key, constructed, available>>

\* The keyword arguments given to ExplanationRequest(...): a dict of some of the
\* four fields.
RequestFields == {"equation", "equation_name", "context", "difficulty_level"}

ArgValues ==
    "equation" :> {Str(""), Str("F = ma"), Num(1)} @@
    "equation_name" :> {None, Str(""), Str("Newton's Second Law")} @@
    "context" :> {None, Str(""), Str("Classical mechanics")} @@
    "difficulty_level" :> {Str("beginner"), Str("intermediate"), Str("advanced"),
                           Str("Beginner"), Str(""), Str("expert"), None}

RequestKwargs ==
    UNION {{kw \in [given -> UNION {ArgValues[f] : f \in given}] :
               \A f \in given : kw[f] \in ArgValues[f]} : given \in SUBSET RequestFields}

\* The validation of ExplanationRequest: equation is a required str,
\* equation_name and context are Optional[str], difficulty_level is a str.
ValidRequestKwargs(kw) ==
    /\ "equation" \in DOMAIN kw /\ IsStr(kw["equation"])
    /\ \A f \in {"equation_name", "context"} \intersect DOMAIN kw : kw[f] = None \/ IsStr(kw[f])
    /\ "difficulty_level" \in DOMAIN kw => IsStr(kw["difficulty_level"])

\* A variant that stores an empty name or context as None.
NewExplanationRequestNoEmpty(kw) ==
    [equation |-> kw["equation"].s,
     equation_name |-> IF "equation_name" \in DOMAIN kw /\ kw["equation_name"] # Str("")
                       THEN kw["equation_name"] ELSE None,
     context |-> IF "context" \in DOMAIN kw /\ kw["context"] # Str("")
                 THEN kw["context"] ELSE None,
     difficulty_level |-> IF "difficulty_level" \in DOMAIN kw
                          THEN kw["difficulty_level"].s ELSE "intermediate"]

\* The request built: the defaults for the fields not given.
NewExplanationRequest(kw) ==
    [equation |-> kw["equation"].s,
     equation_name |-> IF "equation_name" \in DOMAIN kw THEN kw["equation_name"] ELSE None,
     context |-> IF "context" \in DOMAIN kw THEN kw["context"] ELSE None,
     difficulty_level |-> IF "difficulty_level" \in DOMAIN kw
                          THEN kw["difficulty_level"].s ELSE "intermediate"]

\* ExplanationRequest(**kw): a request, or a pydantic ValidationError.
NewRequest(kw) ==
    /\ pc = "idle"
    /\ constructed' = IF ValidRequestKwargs(kw)
                      THEN [state |-> "ok", kwargs |-> kw, req |-> NewExplanationRequest(kw)]
                      ELSE [state |-> "rejected", kwargs |-> kw]
    /\ UNCHANGED <<driver_vars, model, pc, request, prompt, calls, content, json_str, explanation_data,
                   result, error, api_key, env_key, available>>

\* explainer.explain_equation(req) with the request last constructed.
ExplainConstructed ==
    /\ constructed.state = "ok"
    /\ ExplainEquation(constructed.req)

\* The literal list of get_available_equations (o-umlaut as the bytes of the source).
AvailableEquations ==
    <<"Newton's Second Law",
      "Einstein's Mass-Energy Equivalence",
      "Schr\\u00c3\\u00b6dinger's Equation",
      "Wave Equation",
      "Heat Conduction Equation",
      "Maxwell's Equations",
      "Ohm's Law",
      "Ideal Gas Law",
      "Universal Law of Gravitation",
      "Coulomb's Law">>

\* A variant that also lists the equation last asked about.
GetAvailableEquationsLearning ==
    /\ pc = "idle"
    /\ available' = IF constructed.state = "ok"
                    THEN Append(AvailableEquations, constructed.req.equation)
                    ELSE AvailableEquations
    /\ UNCHANGED <<driver_vars, model, pc, request, prompt, calls, content, json_str, explanation_data,
                   result, error, api_key, env_key, constructed>>

\* explainer.get_available_equations()
GetAvailableEquations ==
    /\ pc = "idle"
    /\ available' = AvailableEquations
    /\ UNCHANGED <<driver_vars, model, pc, request, prompt, calls, content, json_str, explanation_data,
                   result, error, api_key, env_key, constructed>>

\* The replies drawn in this specification: a full payload, prose, a list.
ApiContents ==
    {TestPayload, <<"This is not JSON">>, JsonDumps(List(<<Num(1)>>))}

NextApi ==
    \/ \E key \in ApiKeys : NewExplainer(key)
    \/ \E kw \in RequestKwargs : NewRequest(kw)
    \/ ExplainConstructed
    \/ GetAvailableEquations
    \/ \E text \in ApiContents : CompletionReturns(text)
    \/ \E e \in UpstreamErrors : CompletionRaises(e)
    \/ ParseResponse
    \/ Construct
    \/ Done

SpecApi == InitApi /\ [][NextApi]_vars


(***************************************************************************)
(* explain_equation as one function of its argument and of what the        *)
(* collaborator does when called: the record returned or the error raised. *)
(* The argument is an object of any model class, a function of its fields. *)
(***************************************************************************)
\* The attributes _build_prompt reads of its request.
PromptAttributes == {"difficulty_level", "context", "equation_name", "equation"}

\* What a call of the collaborator does: it returns a text or raises an error.
Returned(text) == [returns |-> text]
Raised(e) == [raises |-> e]

\* outcome is what the collaborator does if it is called; called tells whether
\* it was called at all.
ExplainEquationOutcome(obj, outcome) ==
    IF ~(PromptAttributes \subseteq DOMAIN obj)
    THEN [raised |-> TRUE, error |-> "AttributeError", called |-> FALSE]
    ELSE IF "raises" \in DOMAIN outcome
    THEN [raised |-> TRUE, error |-> outcome.raises, called |-> TRUE]
    ELSE LET r == ParseResponseResult(outcome.returns, obj) IN
         IF r.raised THEN [raised |-> TRUE, error |-> "TypeError", called |-> TRUE]
         ELSE IF ~ValidExplanation(r.data)
         THEN [raised |-> TRUE, error |-> "ValidationError", called |-> TRUE]
         ELSE [raised |-> FALSE, result |-> EquationExplanation(r.data), called |-> TRUE]

(***************************************************************************)
(* Several callers invoke explain_equation on one explainer, their steps   *)
(* interleaved in any way.  The locals of an invocation (request, prompt,  *)
(* response, content, explanation_data) belong to its caller; self.model   *)
(* is the one thing of the explainer an invocation reads.                  *)
(***************************************************************************)
Callers == {1, 2}

NoLocals ==
    [pc |-> "idle", request |-> NoRequest, prompt |-> <<>>, calls |-> <<>>,
     content |-> <<>>, json_str |-> <<>>, explanation_data |-> EmptyDict,
     result |-> NoResult, error |-> "none"]

\* The variables of the single caller, unused here.
call_vars == <<pc, request, prompt, calls, content, json_str, explanation_data, result, error>>

CallerRequests ==
    {r \in ExplanationRequest : r.context = None /\ r.difficulty_level = "intermediate"}

InitCallers ==
    /\ AfterInit
    /\ inv = [t \in Callers |-> NoLocals]
    /\ built = NotConstructed
    /\ NoCli

\* Caller t enters explain_equation: the prompt is built.
CallerExplainEquation(t, req) ==
    /\ inv[t].pc = "idle"
    /\ inv' = [inv EXCEPT ![t] = [NoLocals EXCEPT !.pc = "prompted", !.request = req,
                                                  !.prompt = BuildPrompt(req)]]
    /\ UNCHANGED <<model, call_vars, caller_vars, built, cli_vars>>

\* The arguments of caller t's litellm.completion, with what the call gave:
\* the text returned or the error raised.
CallerCompletionCall(t, outcome) ==
    [model |-> model,
     messages |-> <<[role |-> "system", content |-> <<SystemMessage>>],
                    [role |-> "user", content |-> inv[t].prompt]>>,
     temperature |-> Temperature,
     outcome |-> outcome]

CallerCompletionReturns(t, text) ==
    /\ inv[t].pc = "prompted"
    /\ inv' = [inv EXCEPT ![t] = [@ EXCEPT !.calls = Append(@, CallerCompletionCall(t, Returned(text))),
                                           !.content = text,
                                           !.pc = "completed"]]
    /\ UNCHANGED <<model, call_vars, caller_vars, built, cli_vars>>

CallerCompletionRaises(t, e) ==
    /\ inv[t].pc = "prompted"
    /\ inv' = [inv EXCEPT ![t] = [@ EXCEPT !.calls = Append(@, CallerCompletionCall(t, Raised(e))),
                                           !.error = e,
                                           !.pc = "raised"]]
    /\ UNCHANGED <<model, call_vars, caller_vars, built, cli_vars>>

\* Caller t's _parse_response for the content and the request req.
CallerParsed(t, req) ==
    LET r == ParseResponseResult(inv[t].content, req) IN
    IF r.raised
    THEN [inv[t] EXCEPT !.json_str = r.json_str, !.error = "TypeError", !.pc = "raised"]
    ELSE [inv[t] EXCEPT !.json_str = r.json_str, !.explanation_data = r.data, !.pc = "parsed"]

\* A variant that keeps the request in an attribute of the explainer: an
\* invocation parses for the request of the other one when that is under way.
CallerParseResponseSharedRequest(t) ==
    /\ inv[t].pc = "completed"
    /\ LET other == CHOOSE u \in Callers : u # t
           req == IF inv[other].pc # "idle" THEN inv[other].request ELSE inv[t].request
       IN  inv' = [inv EXCEPT ![t] = CallerParsed(t, req)]
    /\ UNCHANGED <<model, call_vars, caller_vars, built, cli_vars>>

\* explanation_data = self._parse_response(content, request), both locals of t.
CallerParseResponse(t) ==
    /\ inv[t].pc = "completed"
    /\ inv' = [inv EXCEPT ![t] = CallerParsed(t, inv[t].request)]
    /\ UNCHANGED <<model, call_vars, caller_vars, built, cli_vars>>

CallerConstruct(t) ==
    /\ inv[t].pc = "parsed"
    /\ inv' = [inv EXCEPT ![t] =
                  IF ValidExplanation(inv[t].explanation_data)
                  THEN [@ EXCEPT !.result = EquationExplanation(inv[t].explanation_data),
                                 !.pc = "returned"]
                  ELSE [@ EXCEPT !.error = "ValidationError", !.pc = "raised"]]
    /\ UNCHANGED <<model, call_vars, caller_vars, built, cli_vars>>

\* Caller t has the record or the error; the locals of its call are gone.
CallerDone(t) ==
    /\ inv[t].pc \in {"returned", "raised"}
    /\ inv' = [inv EXCEPT ![t] = NoLocals]
    /\ UNCHANGED <<model, call_vars, caller_vars, built, cli_vars>>

NextCallers ==
    \E t \in Callers :
        \/ \E req \in CallerRequests : CallerExplainEquation(t, req)
        \/ \E text \in ApiContents : CallerCompletionReturns(t, text)
        \/ \E e \in UpstreamErrors : CallerCompletionRaises(t, e)
        \/ CallerParseResponse(t)
        \/ CallerConstruct(t)
        \/ CallerDone(t)

SpecCallers == InitCallers /\ [][NextCallers]_vars


\* The texts of this model that int() accepts, with the int of each.
IntValue == "1" :> 1

IntTexts == DOMAIN IntValue

(***************************************************************************)
(* EquationModel and the models it is made of (models.py).  For each model *)
(* the type of its required fields and of its Optional fields, which       *)
(* default to None; a keyword that is no field is ignored.                 *)
(***************************************************************************)
ModelFields ==
    "ApplicationModel" :>
        [required |-> "title" :> "str" @@ "description" :> "str",
         optional |-> EmptyDict] @@
    "HistoryModel" :>
        [required |-> "equation_name" :> "str" @@ "equation" :> "str" @@
                      "year_discovered" :> "int" @@ "discoverer" :> "str" @@
                      "historical_context" :> "str" @@ "impact" :> "str",
         optional |-> [f \in {"earlier_related_equations", "key_developments",
                              "competing_theories"} |-> "list[str]"] @@
                      "original_publication" :> "str" @@ "country_of_origin" :> "str" @@
                      "applications" :> "list[ApplicationModel]"] @@
    "DerivationStep" :>
        [required |-> "step_number" :> "int" @@ "title" :> "str" @@
                      "description" :> "str" @@ "mathematical_expression" :> "str" @@
                      "reasoning" :> "str",
         optional |-> "from_equation" :> "str" @@ "to_equation" :> "str"] @@
    "DerivationModel" :>
        [required |-> "equation_name" :> "str" @@ "equation" :> "str" @@
                      "starting_principles" :> "list[str]" @@
                      "derivation_steps" :> "list[DerivationStep]",
         optional |-> [f \in {"alternative_derivations", "special_cases",
                              "validity_conditions", "limitations",
                              "extensions_generalizations", "mathematical_prerequisites",
                              "related_equations"} |-> "list[str]"]] @@
    "EquationModel" :>
        [required |-> "name" :> "str" @@ "equation" :> "str",
         optional |-> "history" :> "HistoryModel" @@ "derivation" :> "DerivationModel" @@
                      "applications" :> "list[ApplicationModel]"]

\* The type of the items of each list type.
ElementType ==
    "list[str]" :> "str" @@
    "list[ApplicationModel]" :> "ApplicationModel" @@
    "list[DerivationStep]" :> "DerivationStep"

\* pydantic's validation of the value v for a field of type ty: the value the
\* field gets, or Invalid (a ValidationError).  A str field takes a str only;
\* an int field takes an int, a bool (as 0 or 1) and a str that int() reads; a
\* model field takes the fields of the model, all of them validated.
RECURSIVE Validate(_, _)
Validate(v, ty) ==
    LET Invalid == [ok |-> FALSE]
        Valid(x) == [ok |-> TRUE, val |-> x]
    IN
    CASE ty = "str" -> IF IsStr(v) THEN Valid(v) ELSE Invalid
      [] ty = "int" ->
             IF v.t = "num" THEN Valid(v)
             ELSE IF v.t = "bool" THEN Valid(Num(IF v.b THEN 1 ELSE 0))
             ELSE IF IsStr(v) /\ v.s \in IntTexts THEN Valid(Num(IntValue[v.s]))
             ELSE Invalid
      [] ty \in DOMAIN ElementType ->
             IF v.t # "list" THEN Invalid
             ELSE LET items == [i \in 1..Len(v.l) |-> Validate(v.l[i], ElementType[ty])] IN
                  IF \A i \in 1..Len(v.l) : items[i].ok
                  THEN Valid(List([i \in 1..Len(v.l) |-> items[i].val]))
                  ELSE Invalid
      [] ty \in DOMAIN ModelFields ->
             IF ~IsDict(v) THEN Invalid
             ELSE LET required == ModelFields[ty].required
                      optional == ModelFields[ty].optional
                      names == DOMAIN required \union DOMAIN optional
                      fields == [f \in names |->
                                    IF f \in DOMAIN optional
                                       /\ (f \notin DOMAIN v.o \/ v.o[f] = None)
                                    THEN Valid(None)
                                    ELSE IF f \notin DOMAIN v.o THEN Invalid
                                    ELSE Validate(v.o[f], (required @@ optional)[f])]
                  IN  IF \A f \in names : fields[f].ok
                      THEN Valid(Dict([f \in names |-> fields[f].val]))
                      ELSE Invalid

ValidEquationModel(kw) == Validate(Dict(kw), "EquationModel").ok

\* EquationModel(**kw) for keywords that are valid: the fields of the object.
EquationModel(kw) == Validate(Dict(kw), "EquationModel").val.o


(***************************************************************************)
(* EquationExplanation(...) and EquationModel(...) evaluated by a caller   *)
(* itself, as the tests of models.py do, with fields given or left out.    *)
(***************************************************************************)
ExplanationFields == RequiredFields \union {"introduction"}

FullExplanation ==
    Body("Simple test", <<"force">>) @@ Echo @@ ("introduction" :> Introduction)

ExplanationKwargs ==
    {Restrict(FullExplanation, given) : given \in SUBSET ExplanationFields}
    \union {Merge(Restrict(FullExplanation, RequiredFields), "key_concepts" :> StrList(kc)) :
               kc \in ConceptLists}
    \union {Merge(Restrict(FullExplanation, RequiredFields), "simple_explanation" :> None),
            Merge(Restrict(FullExplanation, RequiredFields), "key_concepts" :> List(<<Num(1)>>)),
            Merge(FullExplanation, "introduction" :> None)}

InitModels ==
    /\ AfterInit
    /\ NoDrivers

\* EquationExplanation(**kw): the record, or a pydantic ValidationError.
NewEquationExplanation(kw) ==
    /\ built' = IF ValidExplanation(kw)
                THEN [class |-> "EquationExplanation", state |-> "ok", kwargs |-> kw,
                      record |-> EquationExplanation(kw)]
                ELSE [class |-> "EquationExplanation", state |-> "rejected", kwargs |-> kw]
    /\ UNCHANGED <<model, call_vars, caller_vars, inv, cli_vars>>

\* Keywords of EquationModel(...): the two required fields alone or left out,
\* and the optional fields with values of their types and of other types.
EquationModelKwargs ==
    LET
        AnApplication == Dict("title" :> Str("GPS") @@ "description" :> Str("Satellite clocks"))
        AHistory ==
            "equation_name" :> Str("Newton's Second Law") @@ "equation" :> Str("F = ma") @@
            "year_discovered" :> Num(1687) @@ "discoverer" :> Str("Isaac Newton") @@
            "historical_context" :> Str("Principia") @@ "impact" :> Str("Classical mechanics")
        AStep ==
            "step_number" :> Num(1) @@ "title" :> Str("Momentum") @@
            "description" :> Str("Define momentum") @@ "mathematical_expression" :> Str("p = mv") @@
            "reasoning" :> Str("Definition")
        ADerivation ==
            "equation_name" :> Str("Newton's Second Law") @@ "equation" :> Str("F = ma") @@
            "starting_principles" :> StrList(<<"force">>) @@
            "derivation_steps" :> List(<<Dict(AStep)>>)
        NameAndEquation == "name" :> Str("Newton's Second Law") @@ "equation" :> Str("F = ma")
    IN
    {Restrict(NameAndEquation, given) : given \in SUBSET DOMAIN NameAndEquation}
    \union {NameAndEquation @@ ("context" :> None),
            Merge(NameAndEquation, "name" :> Num(1))}
    \union {NameAndEquation @@ ("applications" :> v) :
               v \in {None, List(<<>>), List(<<AnApplication>>), Str("GPS"),
                      List(<<Dict("title" :> Str("GPS"))>>)}}
    \union {NameAndEquation @@ ("history" :> v) :
               v \in {None, Dict(AHistory),
                      Dict(Merge(AHistory, "year_discovered" :> Str("1"))),
                      Dict(Merge(AHistory, "year_discovered" :> True)),
                      Dict(Merge(AHistory, "year_discovered" :> Str("force"))),
                      Dict(AHistory @@ ("applications" :> List(<<AnApplication>>))),
                      Dict(AHistory @@ ("key_developments" :> StrList(<<"force">>))),
                      Dict(Restrict(AHistory, DOMAIN AHistory \ {"impact"}))}}
    \union {NameAndEquation @@ ("derivation" :> v) :
               v \in {None, Dict(ADerivation),
                      Dict(Merge(ADerivation, "derivation_steps" :> List(<<>>))),
                      Dict(Merge(ADerivation, "derivation_steps" :>
                               List(<<Dict(Restrict(AStep, {"step_number", "title"}))>>))),
                      Dict(Merge(ADerivation, "starting_principles" :> Str("force")))}}

\* EquationModel(**kw): the object, or a pydantic ValidationError.
NewEquationModel(kw) ==
    /\ built' = IF ValidEquationModel(kw)
                THEN [class |-> "EquationModel", state |-> "ok", kwargs |-> kw,
                      record |-> EquationModel(kw)]
                ELSE [class |-> "EquationModel", state |-> "rejected", kwargs |-> kw]
    /\ UNCHANGED <<model, call_vars, caller_vars, inv, cli_vars>>

NextModels ==
    \/ \E kw \in ExplanationKwargs : NewEquationExplanation(kw)
    \/ \E kw \in EquationModelKwargs : NewEquationModel(kw)

SpecModels == InitModels /\ [][NextModels]_vars


(***************************************************************************)
(* cli.py.  The command line is sys.argv[1:], a sequence of arguments.     *)
(* create_parser and parse_args: the sub-commands, their positional and    *)
(* their options; the outcome is the namespace, or the exit status of      *)
(* argparse (0 after the help text, 2 after a usage error).                *)
(***************************************************************************)
KnownCommands == {"explain", "history", "derivation", "analyze", "list", "version"}

\* The arguments of this model that start with "-".
DashArguments == {"-h", "--help", "--bogus", "-n", "--name", "-c", "--context",
                  "-d", "--difficulty", "-m", "--md", "-j", "--json", "-s", "--step"}

StartsWithDash(arg) == arg \in DashArguments

HelpOptions == {"-h", "--help"}

DifficultyChoices == {"beginner", "intermediate", "advanced"}

\* set_defaults(func=...) of each sub-command.
RegisteredHandler ==
    "explain" :> "explain_equation" @@
    "history" :> "history_equation" @@
    "derivation" :> "derivation_equation" @@
    "analyze" :> "comprehensive_equation_analysis" @@
    "list" :> "list_equations" @@
    "version" :> "version"

\* The positional argument of each sub-command that has one.
Positional ==
    "explain" :> "equation" @@
    "history" :> "equation_name" @@
    "derivation" :> "equation_name" @@
    "analyze" :> "equation_name"

\* The options of each sub-command, with the attribute each one sets.
Options ==
    LET MdOption == "-m" :> "md" @@ "--md" :> "md"
        JsonOption == "-j" :> "json" @@ "--json" :> "json"
    IN
    "explain" :> ("-n" :> "name" @@ "--name" :> "name" @@
                  "-c" :> "context" @@ "--context" :> "context" @@
                  "-d" :> "difficulty" @@ "--difficulty" :> "difficulty" @@ MdOption) @@
    "history" :> (JsonOption @@ MdOption) @@
    "derivation" :> ("-s" :> "step" @@ "--step" :> "step" @@ JsonOption @@ MdOption) @@
    "analyze" :> ("-d" :> "difficulty" @@ "--difficulty" :> "difficulty" @@ MdOption) @@
    "list" :> EmptyDict @@
    "version" :> EmptyDict

\* The namespace of a sub-command before its arguments are read.
DefaultNamespace(cmd) ==
    LET base == "command" :> Str(cmd) @@ "func" :> Str(RegisteredHandler[cmd]) IN
    CASE cmd = "explain" ->
             base @@ "equation" :> None @@ "name" :> None @@ "context" :> None @@
             "difficulty" :> Str("intermediate") @@ "md" :> None
      [] cmd = "history" ->
             base @@ "equation_name" :> None @@ "json" :> False @@
             "md" :> None
      [] cmd = "derivation" ->
             base @@ "equation_name" :> None @@ "step" :> None @@
             "json" :> False @@ "md" :> None
      [] cmd = "analyze" ->
             base @@ "equation_name" :> None @@ "difficulty" :> Str("intermediate") @@
             "md" :> None
      [] OTHER -> base

\* argparse ends the process: status 0 after help, 2 after a usage error.
ArgparseExit(status) == [exit |-> TRUE, status |-> status]

\* The arguments after the sub-command, read from left to right.  given says
\* the positional was read, extras that an argument was not recognised.
RECURSIVE ParseSubcommand(_, _, _, _, _)
ParseSubcommand(cmd, toks, ns, given, extras) ==
    IF toks = <<>>
    THEN IF cmd \in DOMAIN Positional /\ ~given THEN ArgparseExit(2)
         ELSE IF extras THEN ArgparseExit(2)
         ELSE [exit |-> FALSE, ns |-> ns]
    ELSE LET tok == Head(toks) IN
         IF tok \in HelpOptions THEN ArgparseExit(0)
         ELSE IF tok \in DOMAIN Options[cmd]
         THEN LET dest == Options[cmd][tok] IN
              IF dest = "json"
              THEN ParseSubcommand(cmd, Tail(toks), Merge(ns, dest :> True), given, extras)
              ELSE IF Len(toks) < 2 \/ StartsWithDash(toks[2]) THEN ArgparseExit(2)
              ELSE IF dest = "difficulty" /\ toks[2] \notin DifficultyChoices
                   THEN ArgparseExit(2)
              ELSE IF dest = "step" /\ toks[2] \notin IntTexts THEN ArgparseExit(2)
              ELSE ParseSubcommand(cmd, Tail(Tail(toks)),
                                   Merge(ns, dest :> (IF dest = "step"
                                                      THEN Num(IntValue[toks[2]])
                                                      ELSE Str(toks[2]))),
                                   given, extras)
         ELSE IF StartsWithDash(tok)
         THEN ParseSubcommand(cmd, Tail(toks), ns, given, TRUE)
         ELSE IF cmd \in DOMAIN Positional /\ ~given
         THEN ParseSubcommand(cmd, Tail(toks), Merge(ns, Positional[cmd] :> Str(tok)),
                              TRUE, extras)
         ELSE ParseSubcommand(cmd, Tail(toks), ns, given, TRUE)

\* The arguments before the sub-command, read from left to right: the help
\* option ends the process, any other argument that starts with "-" is not
\* recognised and kept, the first other argument is the sub-command (a usage
\* error unless it is a known command) and what follows it is the
\* sub-command's.  extras says that an argument was not recognised.
RECURSIVE ParseTopLevel(_, _)
ParseTopLevel(toks, extras) ==
    IF toks = <<>>
    THEN IF extras THEN ArgparseExit(2) ELSE [exit |-> FALSE, ns |-> "command" :> None]
    ELSE LET tok == Head(toks) IN
         IF tok \in HelpOptions THEN ArgparseExit(0)
         ELSE IF StartsWithDash(tok) THEN ParseTopLevel(Tail(toks), TRUE)
         ELSE IF tok \in KnownCommands
         THEN ParseSubcommand(tok, Tail(toks), DefaultNamespace(tok), FALSE, extras)
         ELSE ArgparseExit(2)

\* parser.parse_args(): the namespace, or the exit of argparse.
ParseArgs(args) == ParseTopLevel(args, FALSE)

(***************************************************************************)
(* The functions of cli_utils, by what they are called with: what is shown *)
(* on the console is the sequence of these calls, a file saved is the      *)
(* document and its path.  print(...) is shown as a line of its own.       *)
(***************************************************************************)
PrintHeader(title, subtitle) == [out |-> "header", title |-> title, subtitle |-> subtitle]

PrintSection(title, body) == [out |-> "section", title |-> title, body |-> body]

PrintError(message) == [out |-> "error", message |-> message]

PrintList(title, items) == [out |-> "list", title |-> title, items |-> items]

PrintLine(text) == [out |-> "print", text |-> text]

\* generate_markdown_document(title, equation, content_dict): content_dict as
\* the sequence of its items, in the order of the dict display.
GenerateMarkdownDocument(title, equation, content_dict) ==
    [title |-> title, equation |-> equation, sections |-> content_dict]

GenerateFourSectionMarkdown(equation_name, equation, introduction, history, derivation, applications) ==
    [title |-> equation_name, equation |-> equation,
     sections |-> <<<<"Introduction", introduction>>, <<"History", history>>,
                    <<"Derivation", derivation>>, <<"Applications", applications>>>>]

\* save_markdown_file(content, path): the file written; the path is returned.
SaveMarkdownFile(markdown_content, path) == [path |-> path, content |-> markdown_content]

\* ", ".join(l) for a list of str values.
RECURSIVE Join(_)
Join(l) ==
    IF l = <<>> THEN ""
    ELSE IF Len(l) = 1 THEN l[1].s
    ELSE l[1].s \o ", " \o Join(Tail(l))

\* str(e) of the errors explain_equation raises.
ErrorText(e) ==
    IF e = "AttributeError"
    THEN "'EquationModel' object has no attribute 'difficulty_level'"
    ELSE e

\* hasattr(args, "md") and args.md
WantsMarkdown(args) == "md" \in DOMAIN args /\ Truthy(args["md"])

(***************************************************************************)
(* The three handlers explain_equation, history_equation and               *)
(* derivation_equation of cli.py have one shape: header, EquationModel,    *)
(* explainer.explain_equation, five sections, the markdown file; any       *)
(* exception ends in print_error and sys.exit(1).  They differ in their    *)
(* texts.  (The hourglass and check-mark glyphs of the printed lines are   *)
(* left out.)                                                              *)
(***************************************************************************)
SectionHandlers ==
    "explain_equation" :>
        [header |-> PrintHeader("Equation Explanation",
                                "A detailed explanation of a physics equation."),
         labels |-> <<"Simple Explanation", "Detailed Explanation", "Real-World Example">>,
         context |-> "",
         title_prefix |-> "",
         failure |-> "Failed to explain equation: "] @@
    "history_equation" :>
        [header |-> PrintHeader("Equation History",
                                "The historical background of a physics equation."),
         labels |-> <<"Description", "Detailed Information", "Modern Applications">>,
         context |-> "Provide historical information about this equation including discoverer, year discovered, historical context, and modern applications.",
         title_prefix |-> "History: ",
         failure |-> "Failed to get equation history: "] @@
    "derivation_equation" :>
        [header |-> PrintHeader("Equation Derivation",
                                "The mathematical derivation of a physics equation."),
         labels |-> <<"Starting Principles & Foundations", "Derivation Details",
                      "Assumptions & Limitations">>,
         context |-> "Provide a detailed mathematical derivation of this equation, including the starting principles, key assumptions, step-by-step derivation steps, and limitations.",
         title_prefix |-> "Derivation: ",
         failure |-> "Failed to get equation derivation: "]

\* The keyword arguments of EquationModel(...) in handler h.
HandlerModelKwargs(h, args) ==
    IF h = "explain_equation"
    THEN [name |-> IF Truthy(args["name"]) THEN args["name"] ELSE args["equation"],
          equation |-> args["equation"],
          context |-> args["context"]]
    ELSE [name |-> args["equation_name"],
          equation |-> args["equation_name"],
          context |-> Str(SectionHandlers[h].context)]

\* What handler h prints before it calls the explainer, or before the
\* EquationModel(...) that raises.  explain_equation prints its header,
\* builds the EquationModel and then prints the progress line, so a
\* ValidationError leaves the header alone; history_equation and
\* derivation_equation print both before they build it.
HandlerPreamble(h, args) ==
    CASE h = "explain_equation" ->
             <<SectionHandlers[h].header>> \o
             IF ValidEquationModel(HandlerModelKwargs(h, args))
             THEN <<PrintLine(<<"Analyzing equation...">>)>>
             ELSE <<>>
      [] h = "history_equation" ->
             <<SectionHandlers[h].header,
               PrintLine(<<"Fetching history for: ", PyStr(args["equation_name"]), "...">>)>>
      [] h = "derivation_equation" ->
             <<SectionHandlers[h].header,
               PrintLine(<<"Fetching derivation for: ", PyStr(args["equation_name"]),
                           "...">>)>>

\* The five print_section calls of handler h for the record x.
HandlerSections(h, x) ==
    LET labels == SectionHandlers[h].labels IN
    <<PrintSection("Equation", <<"[bold]", x["equation_name"].s, "[/bold]\n", x["equation"].s>>),
      PrintSection(labels[1], <<x["simple_explanation"].s>>),
      PrintSection(labels[2], <<x["detailed_explanation"].s>>),
      PrintSection(labels[3], <<x["real_world_example"].s>>),
      PrintSection("Key Concepts", <<Join(x["key_concepts"].l)>>)>>

\* The markdown document of handler h for the record x.
HandlerMarkdown(h, x) ==
    LET labels == SectionHandlers[h].labels IN
    GenerateMarkdownDocument(
        SectionHandlers[h].title_prefix \o x["equation_name"].s,
        x["equation"].s,
        <<<<labels[1], x["simple_explanation"].s>>,
          <<labels[2], x["detailed_explanation"].s>>,
          <<labels[3], x["real_world_example"].s>>,
          <<"Key Concepts", Join(x["key_concepts"].l)>>>>)

(***************************************************************************)
(* The process of cli.py, from main() to its end.                          *)
(***************************************************************************)
\* The handler calls of handle_equation_input, each with the line printed
\* before it and the attributes set on its Args object.
EquationInputCalls(equation_name) ==
    <<[func |-> "explain_equation", via |-> "handle_equation_input",
       announce |-> <<PrintLine(<<"[1/3] Explaining the equation...">>)>>,
       args |-> "equation" :> Str(equation_name) @@ "name" :> None @@ "context" :> None @@
                "difficulty" :> Str("intermediate") @@ "md" :> None],
      [func |-> "history_equation", via |-> "handle_equation_input",
       announce |-> <<PrintLine(<<"\n[2/3] Fetching historical information...">>)>>,
       args |-> "equation_name" :> Str(equation_name) @@
                "json" :> False @@ "md" :> None],
      [func |-> "derivation_equation", via |-> "handle_equation_input",
       announce |-> <<PrintLine(<<"\n[3/3] Fetching mathematical derivation...">>)>>,
       args |-> "equation_name" :> Str(equation_name) @@ "step" :> None @@
                "json" :> False @@ "md" :> None]>>

\* The command lines drawn: none, the commands with and without their
\* arguments and options, a bare equation name, help and an unknown option.
EquationArguments == {"F = ma", "Wave Equation"}

MarkdownOptions == {<<>>, <<"-m", "out.md">>, <<"--md", "out.md">>}

ExplainOptions ==
    MarkdownOptions \union
    {<<"-n", "Newton's Second Law">>, <<"-c", "Classical mechanics">>, <<"-d", "beginner">>,
     <<"-d", "expert">>, <<"--name", "Newton's Second Law", "-m", "out.md">>, <<"-m">>}

Argvs ==
    {<<>>, <<"-h">>, <<"--bogus">>, <<"--bogus", "-h">>, <<"-m", "explain", "-h">>,
     <<"--bogus", "list">>, <<"-n", "F = ma">>, <<"list">>, <<"version">>, <<"list", "F = ma">>,
     <<"explain">>, <<"explain", "-h">>, <<"history", "Wave Equation", "-j">>,
     <<"derivation", "Wave Equation", "-s", "1">>, <<"">>}
    \union {<<eq>> \o md : eq \in EquationArguments, md \in {<<>>, <<"-m", "out.md">>}}
    \union {<<"explain", eq>> \o opts : eq \in EquationArguments, opts \in ExplainOptions}
    \union {<<cmd, eq>> \o md : cmd \in {"history", "derivation"},
                                eq \in EquationArguments, md \in MarkdownOptions}
    \union {<<"analyze", eq>> \o opts :
               eq \in EquationArguments,
               opts \in MarkdownOptions \union
                        {<<"-m", "einstein.md">>, <<"-d", "beginner", "--md", "notes/heat.md">>}}

\* What the collaborator has ready for a call: a text or an error.
CliOutcomes == {Returned(text) : text \in ApiContents} \union {Raised("RateLimitError")}

\* The process has not ended.
Running == -1

\* The process is started with a command line; main has not run yet.  In a
\* run one call of an output function the analysis makes after its four
\* sections may fail with an OSError (a file that cannot be written, a console
\* that is closed): the call of generate_four_section_markdown, the call of
\* save_markdown_file, or one of the four calls of print_section.
InitCli ==
    /\ AfterInit
    /\ inv = <<>>
    /\ built = NotConstructed
    /\ argv \in Argvs
    /\ upstream \in CliOutcomes
    /\ fault \in {[func |-> "none", call |-> 0],
                  [func |-> "generate_four_section_markdown", call |-> 1],
                  [func |-> "save_markdown_file", call |-> 1]}
                 \union {[func |-> "print_section", call |-> n] : n \in 1..4}
    /\ cli_pc = "start"
    /\ todo = <<>>
    /\ sections = <<>>
    /\ stdout = <<>>
    /\ exit_status = Running
    /\ saved = <<>>
    /\ explained = <<>>
    /\ ran = <<>>
    /\ parsed = FALSE

\* What no step of the command-line process changes.
cli_fixed == <<model, call_vars, caller_vars, inv, built, argv, upstream, fault>>

\* A variant of main that hands every command line to the parser.
MainParsesAll ==
    /\ cli_pc = "start"
    /\ LET r == IF argv # <<>> /\ argv[1] \notin KnownCommands /\ ~StartsWithDash(argv[1])
                THEN ArgparseExit(2) ELSE ParseArgs(argv) IN
       /\ parsed' = TRUE
       /\ IF r.exit
          THEN /\ stdout' = <<PrintLine(<<IF r.status = 0 THEN "help" ELSE "usage error">>)>>
               /\ exit_status' = r.status
               /\ cli_pc' = "exited"
               /\ todo' = <<>>
          ELSE IF r.ns["command"] = None
          THEN /\ stdout' = <<PrintLine(<<"help">>)>>
               /\ exit_status' = 0
               /\ cli_pc' = "exited"
               /\ todo' = <<>>
          ELSE /\ todo' = <<[func |-> r.ns["func"].s, via |-> "args.func", announce |-> <<>>,
                            args |-> r.ns]>>
               /\ cli_pc' = "handlers"
               /\ UNCHANGED <<stdout, exit_status>>
    /\ UNCHANGED <<cli_fixed, sections, saved, explained, ran>>

\* main(): a first argument that is no known command and does not start with
\* "-" is an equation name, handled by handle_equation_input; otherwise the
\* parser reads the command line, and main prints the help and exits with
\* status 0 when there is no command, or calls args.func(args).
Main ==
    /\ cli_pc = "start"
    /\ IF argv # <<>> /\ argv[1] \notin KnownCommands /\ ~StartsWithDash(argv[1])
       THEN /\ parsed' = FALSE
            /\ stdout' = <<PrintHeader("Physics Equation Analysis",
                                       "A complete analysis of a physics equation."),
                           PrintLine(<<"Equation: ", argv[1], "\n">>)>>
            /\ todo' = EquationInputCalls(argv[1])
            /\ cli_pc' = "handlers"
            /\ UNCHANGED exit_status
       ELSE LET r == ParseArgs(argv) IN
            /\ parsed' = TRUE
            /\ IF r.exit
               THEN /\ stdout' = <<PrintLine(<<IF r.status = 0 THEN "help" ELSE "usage error">>)>>
                    /\ exit_status' = r.status
                    /\ cli_pc' = "exited"
                    /\ todo' = <<>>
               ELSE IF r.ns["command"] = None
               THEN /\ stdout' = <<PrintLine(<<"help">>)>>
                    /\ exit_status' = 0
                    /\ cli_pc' = "exited"
                    /\ todo' = <<>>
               ELSE /\ todo' = <<[func |-> r.ns["func"].s, via |-> "args.func",
                                  announce |-> <<>>, args |-> r.ns]>>
                    /\ cli_pc' = "handlers"
                    /\ UNCHANGED <<stdout, exit_status>>
    /\ UNCHANGED <<cli_fixed, sections, saved, explained, ran>>

\* The handler call at the head of todo is to h.
Calls(h) == cli_pc = "handlers" /\ todo # <<>> /\ Head(todo).func = h

\* explainer.explain_equation(EquationModel(kw)) as a handler evaluates it.
HandlerExplain(kw) ==
    IF ValidEquationModel(kw)
    THEN ExplainEquationOutcome(EquationModel(kw), upstream)
    ELSE [raised |-> TRUE, error |-> "ValidationError", called |-> FALSE]

\* The objects given to explain_equation so far, with that of EquationModel(kw).
Explained(kw) ==
    IF ValidEquationModel(kw) THEN Append(explained, EquationModel(kw)) ELSE explained

\* The handler call at the head of todo has returned: the next one is made,
\* or main returns and the process ends with status 0.
Returns ==
    /\ todo' = Tail(todo)
    /\ IF Len(todo) = 1
       THEN cli_pc' = "returned" /\ exit_status' = 0
       ELSE UNCHANGED <<cli_pc, exit_status>>

\* A variant whose except clause prints the error and returns to the caller.
SectionHandlerNoExit(h) ==
    /\ Calls(h)
    /\ LET call == Head(todo)
           kw == HandlerModelKwargs(h, call.args)
           outcome == HandlerExplain(kw)
           shown == stdout \o call.announce \o HandlerPreamble(h, call.args)
       IN  /\ explained' = Explained(kw)
           /\ IF outcome.raised
              THEN /\ stdout' = Append(shown, PrintError(<<SectionHandlers[h].failure,
                                                          ErrorText(outcome.error)>>))
                   /\ ran' = Append(ran, [func |-> h, via |-> call.via, outcome |-> "failed"])
                   /\ UNCHANGED saved
                   /\ Returns
              ELSE /\ stdout' = shown \o HandlerSections(h, outcome.result)
                   /\ ran' = Append(ran, [func |-> h, via |-> call.via, outcome |-> "ok"])
                   /\ UNCHANGED saved
                   /\ Returns
    /\ UNCHANGED <<cli_fixed, sections, parsed>>

\* A variant that writes the markdown file first, before it has an explanation.
SectionHandlerSavesFirst(h) ==
    /\ Calls(h)
    /\ LET call == Head(todo)
           kw == HandlerModelKwargs(h, call.args)
           outcome == HandlerExplain(kw)
           shown == stdout \o call.announce \o HandlerPreamble(h, call.args)
       IN  /\ explained' = Explained(kw)
           /\ saved' = IF WantsMarkdown(call.args)
                       THEN Append(saved, SaveMarkdownFile(
                                GenerateMarkdownDocument(kw.name.s, kw.equation.s, <<>>),
                                call.args["md"].s))
                       ELSE saved
           /\ IF outcome.raised
              THEN /\ stdout' = Append(shown, PrintError(<<SectionHandlers[h].failure,
                                                          ErrorText(outcome.error)>>))
                   /\ ran' = Append(ran, [func |-> h, via |-> call.via, outcome |-> "failed"])
                   /\ todo' = Tail(todo)
                   /\ exit_status' = 1
                   /\ cli_pc' = "exited"
              ELSE /\ stdout' = shown \o HandlerSections(h, outcome.result)
                   /\ ran' = Append(ran, [func |-> h, via |-> call.via, outcome |-> "ok"])
                   /\ Returns
    /\ UNCHANGED <<cli_fixed, sections, parsed>>

\* explain_equation(args), history_equation(args) or derivation_equation(args).
SectionHandler(h) ==
    /\ Calls(h)
    /\ LET call == Head(todo)
           kw == HandlerModelKwargs(h, call.args)
           outcome == HandlerExplain(kw)
           shown == stdout \o call.announce \o HandlerPreamble(h, call.args)
       IN  /\ explained' = Explained(kw)
           /\ IF outcome.raised
              THEN \* except Exception as e: print_error(...); sys.exit(1)
                   /\ stdout' = Append(shown, PrintError(<<SectionHandlers[h].failure,
                                                          ErrorText(outcome.error)>>))
                   /\ ran' = Append(ran, [func |-> h, via |-> call.via, outcome |-> "failed"])
                   /\ UNCHANGED saved
                   /\ todo' = Tail(todo)
                   /\ exit_status' = 1
                   /\ cli_pc' = "exited"
              ELSE /\ stdout' = shown \o HandlerSections(h, outcome.result)
                                \o (IF WantsMarkdown(call.args)
                                    THEN <<PrintLine(<<"Markdown file saved to: ",
                                                       call.args["md"].s>>)>>
                                    ELSE <<>>)
                   /\ saved' = IF WantsMarkdown(call.args)
                               THEN Append(saved,
                                           SaveMarkdownFile(HandlerMarkdown(h, outcome.result),
                                                            call.args["md"].s))
                               ELSE saved
                   /\ ran' = Append(ran, [func |-> h, via |-> call.via, outcome |-> "ok"])
                   /\ Returns
    /\ UNCHANGED <<cli_fixed, sections, parsed>>


\* list_equations(args): the header, the introduction, the list of
\* get_available_equations, the examples under their heading and rule (a
\* character outside ASCII is written as its \u escape).
ListEquations ==
    /\ Calls("list_equations")
    /\ stdout' = stdout \o
           <<PrintHeader("MathEqs - Physics Equation Explainer",
                         "Your AI-powered physics equation assistant."),
             PrintLine(<<"\nThis tool can analyze ANY physics equation. Just enter the equation name or\n"
                       \o "expression, and get detailed explanations, historical context, and mathematical\n"
                       \o "derivations powered by AI.\n">>),
             PrintList("Available Equations", AvailableEquations),
             PrintLine(<<"\nExamples">>),
             PrintLine(<<"--------">>),
             PrintLine(<<"\n  python cli.py \"Newton's Second Law\"\n"
                       \o "  python cli.py analyze \"E = mc\\u00b2\" -m einstein.md\n"
                       \o "  python cli.py explain \"F = ma\"\n"
                       \o "  python cli.py history \"Einstein's Mass-Energy\"\n"
                       \o "  python cli.py derivation \"Schr\\u00f6dinger's Equation\"\n"
                       \o "  python cli.py explain \"F = ma\" --md equation.md\n"
                       \o "  python cli.py history \"Wave Equation\" -m wave_history.md\n"
                       \o "  python cli.py analyze \"Heat Conduction\" -d beginner -m heat.md\n">>)>>
    /\ ran' = Append(ran, [func |-> "list_equations", via |-> Head(todo).via, outcome |-> "ok"])
    /\ Returns
    /\ UNCHANGED <<cli_fixed, sections, saved, explained, parsed>>

\* version(args): the header, the heading, a rule of 18 dashes, the commands.
Version ==
    /\ Calls("version")
    /\ stdout' = stdout \o
           <<PrintHeader("MathEqs v1.0.0", "Physics Equation Explainer with AI."),
             PrintLine(<<"\nAvailable Commands">>),
             PrintLine(<<"------------------">>),
             PrintLine(<<"\n  analyze     - Comprehensive analysis (4 sections: Intro, History, Derivation, Applications)\n"
                       \o "  explain     - Explain a physics equation\n"
                       \o "  history     - View equation history\n"
                       \o "  derivation  - View equation derivation\n"
                       \o "  list        - List available equations\n"
                       \o "  help        - Show help information\n">>)>>
    /\ ran' = Append(ran, [func |-> "version", via |-> Head(todo).via, outcome |-> "ok"])
    /\ Returns
    /\ UNCHANGED <<cli_fixed, sections, saved, explained, parsed>>

(***************************************************************************)
(* comprehensive_equation_analysis: four sections, each generated in a try *)
(* block of its own, then the markdown file or the console output.         *)
(***************************************************************************)
AnalysisParts ==
    <<[name |-> "introduction", title |-> "Introduction", done |-> "Introduction generated",
       context |-> "Provide a comprehensive introduction to this equation, including its overview, significance, and the field of physics it belongs to.",
       between |-> "\n\n**Significance:** "],
      [name |-> "history", title |-> "History", done |-> "History generated",
       context |-> "Provide the historical development of this equation, including when it was discovered, who discovered it, and how it evolved.",
       between |-> "\n\n"],
      [name |-> "derivation", title |-> "Derivation", done |-> "Derivation generated",
       context |-> "Provide a detailed mathematical derivation of this equation, including the starting principles, key assumptions, step-by-step derivation, and limitations.",
       between |-> "\n\n"],
      [name |-> "applications", title |-> "Applications", done |-> "Applications generated",
       context |-> "Provide modern applications and practical uses of this equation in technology, engineering, and science.",
       between |-> "\n\n"]>>

\* The handler is entered: the header, the explainer, the four empty texts.
AnalyzeEnter ==
    /\ Calls("comprehensive_equation_analysis")
    /\ stdout' = stdout \o
           <<PrintHeader("Comprehensive Equation Analysis",
                         "A complete analysis of a physics equation."),
             PrintLine(<<"Equation: ", PyStr(Head(todo).args["equation_name"]), "\n">>)>>
    /\ sections' = <<>>
    /\ cli_pc' = "analyze"
    /\ UNCHANGED <<cli_fixed, todo, exit_status, saved, explained, ran, parsed>>

\* The keyword arguments of EquationModel(...) for the k-th section.
AnalysisModelKwargs(k) ==
    [name |-> Head(todo).args["equation_name"],
     equation |-> Head(todo).args["equation_name"],
     context |-> Str(AnalysisParts[k].context)]

\* A variant that treats a failed section as the other handlers treat a
\* failure: print_error and sys.exit(1).
AnalyzeSectionExits ==
    /\ cli_pc = "analyze"
    /\ Len(sections) < Len(AnalysisParts)
    /\ LET k == Len(sections) + 1
           part == AnalysisParts[k]
           outcome == HandlerExplain(AnalysisModelKwargs(k))
       IN  /\ explained' = Explained(AnalysisModelKwargs(k))
           /\ IF outcome.raised
              THEN /\ stdout' = stdout \o
                          <<PrintLine(<<"Generating ", part.name, "...">>),
                            PrintError(<<"Failed to analyze equation: ",
                                         ErrorText(outcome.error)>>)>>
                   /\ exit_status' = 1
                   /\ cli_pc' = "exited"
                   /\ UNCHANGED sections
              ELSE /\ stdout' = stdout \o
                          <<PrintLine(<<"Generating ", part.name, "...">>),
                            PrintLine(<<part.done>>)>>
                   /\ sections' = Append(sections,
                                         <<outcome.result["simple_explanation"].s, part.between,
                                           outcome.result["detailed_explanation"].s>>)
                   /\ UNCHANGED <<cli_pc, exit_status>>
    /\ UNCHANGED <<cli_fixed, todo, saved, ran, parsed>>

\* The next section: its EquationModel, one explain_equation, its text.  An
\* exception is caught and reported, and the text stays empty.
AnalyzeSection ==
    /\ cli_pc = "analyze"
    /\ Len(sections) < Len(AnalysisParts)
    /\ LET k == Len(sections) + 1
           part == AnalysisParts[k]
           outcome == HandlerExplain(AnalysisModelKwargs(k))
       IN  /\ explained' = Explained(AnalysisModelKwargs(k))
           /\ IF outcome.raised
              THEN /\ stdout' = stdout \o
                          <<PrintLine(<<"Generating ", part.name, "...">>),
                            PrintLine(<<"Could not generate ", part.name, ": ",
                                        ErrorText(outcome.error)>>)>>
                   /\ sections' = Append(sections, <<>>)
              ELSE /\ stdout' = stdout \o
                          <<PrintLine(<<"Generating ", part.name, "...">>),
                            PrintLine(<<part.done>>)>>
                   /\ sections' = Append(sections,
                                         <<outcome.result["simple_explanation"].s, part.between,
                                           outcome.result["detailed_explanation"].s>>)
    /\ UNCHANGED <<cli_fixed, cli_pc, todo, exit_status, saved, ran, parsed>>

\* The output functions the analysis calls for these arguments, in order.
AnalysisOutputCalls(args) ==
    IF WantsMarkdown(args) THEN {"generate_four_section_markdown", "save_markdown_file"}
    ELSE {"print_section"}

\* The output of the four texts: the markdown file, or four sections on the
\* console; the handler returns.  An exception of an output function is
\* caught by the except clause of the handler: print_error and sys.exit(1),
\* with no file saved; the sections that print_section showed before the call
\* that fails stay on the console.
AnalyzeOutput ==
    /\ cli_pc = "analyze"
    /\ Len(sections) = Len(AnalysisParts)
    /\ LET args == Head(todo).args IN
       IF fault.func \in AnalysisOutputCalls(args)
       THEN /\ stdout' = stdout \o
                   [k \in 1..(IF fault.func = "print_section" THEN fault.call - 1 ELSE 0) |->
                       PrintSection(AnalysisParts[k].title, sections[k])] \o
                   <<PrintError(<<"Failed to analyze equation: ", ErrorText("OSError")>>)>>
            /\ ran' = Append(ran, [func |-> "comprehensive_equation_analysis",
                                   via |-> Head(todo).via, outcome |-> "failed"])
            /\ todo' = Tail(todo)
            /\ exit_status' = 1
            /\ cli_pc' = "exited"
            /\ UNCHANGED saved
       ELSE /\ IF WantsMarkdown(args)
               THEN /\ saved' = Append(saved,
                                       SaveMarkdownFile(
                                           GenerateFourSectionMarkdown(
                                               args["equation_name"].s,
                                               args["equation_name"].s,
                                               sections[1], sections[2], sections[3],
                                               sections[4]),
                                           args["md"].s))
                    /\ stdout' = Append(stdout,
                                        PrintLine(<<"\nComplete analysis saved to: ",
                                                    args["md"].s>>))
               ELSE /\ stdout' = stdout \o
                           [k \in 1..Len(AnalysisParts) |->
                               PrintSection(AnalysisParts[k].title, sections[k])]
                    /\ UNCHANGED saved
            /\ ran' = Append(ran, [func |-> "comprehensive_equation_analysis",
                                   via |-> Head(todo).via, outcome |-> "ok"])
            /\ Returns
    /\ UNCHANGED <<cli_fixed, sections, explained, parsed>>

NextCli ==
    \/ Main
    \/ \E h \in DOMAIN SectionHandlers : SectionHandler(h)
    \/ ListEquations
    \/ Version
    \/ AnalyzeEnter
    \/ AnalyzeSection
    \/ AnalyzeOutput

SpecCli == InitCli /\ [][NextCli]_vars


(***************************************************************************)
(* Properties.                                                             *)
(***************************************************************************)

\* _parse_response has returned in this invocation.
ParseReturned == pc \in {"parsed", "returned"} \/ (pc = "raised" /\ error = "ValidationError")

\* _parse_response has been run in this invocation (it returned or it raised).
ParseRan == ParseReturned \/ (pc = "raised" /\ error = "TypeError")

\* What json.loads makes of the candidate payload of the reply.
Decoded == JsonLoads(json_str)

FixedLabel == Str("Physics Equation")

\* C1: in the dict returned by _parse_response and in the record returned by
\* explain_equation, equation is the request's equation and equation_name is the
\* request's name or the fixed label, whatever the collaborator's text holds.
C1_RequestFieldsOverwritten ==
    /\ ParseReturned =>
           /\ explanation_data["equation"] = Str(request.equation)
           /\ explanation_data["equation_name"] \in {request.equation_name, FixedLabel}
    /\ pc = "returned" =>
           /\ result["equation"] = Str(request.equation)
           /\ result["equation_name"] \in {request.equation_name, FixedLabel}

\* C2: _parse_response never fails, and the dict it returns has the four
\* fields simple_explanation, detailed_explanation, real_world_example and
\* key_concepts present and not None.
C2_ParseNeverFails ==
    /\ ~(pc = "raised" /\ error = "TypeError")
    /\ ParseReturned =>
           \A k \in PayloadFields : k \in DOMAIN explanation_data /\ explanation_data[k] # None

\* The heuristic fallback record over the raw text, written out.
IsFallbackOf(d, c) ==
    /\ PayloadFields \subseteq DOMAIN d
    /\ d["simple_explanation"] = Str(Concat(c))
    /\ d["detailed_explanation"] = Str(Concat(c))
    /\ d["real_world_example"] = Str("Example not available")
    /\ d["key_concepts"] = List(<<>>)

\* C3: when the candidate payload decodes to an object that lacks one of the
\* four required fields, the outcome is the fallback record over the raw text
\* and no error is raised.
C3_PartialObjectFallsBack ==
    (ParseRan /\ Decoded.ok /\ IsDict(Decoded.val)
        /\ ~(PayloadFields \subseteq DOMAIN Decoded.val.o))
    => /\ pc # "raised"
       /\ IsFallbackOf(explanation_data, content)

\* C4: when the candidate payload is valid JSON that is no object, the outcome
\* is the fallback record over the raw text and no error is raised.
C4_NonObjectFallsBack ==
    (ParseRan /\ Decoded.ok /\ ~IsDict(Decoded.val))
    => /\ pc # "raised"
       /\ IsFallbackOf(explanation_data, content)

\* C5: explain_equation raises only when the collaborator failed, and a record
\* it returns has every required field populated.
C5_RaisesOnlyUpstream ==
    /\ pc = "raised" => error \in UpstreamErrors
    /\ pc = "returned" => \A k \in RequiredFields : result[k] # None

\* C6: a reply whose candidate payload json.loads cannot decode (the empty
\* text, prose, a fenced block with malformed content) yields the fallback
\* record over the whole raw text, a function of that text alone, and no error.
C6_UndecodableFallsBack ==
    (ParseRan /\ ~Decoded.ok)
    => /\ pc # "raised"
       /\ IsFallbackOf(explanation_data, content)
       /\ DOMAIN explanation_data = PayloadFields \union {"equation_name", "equation"}
       /\ pc = "returned" => IsFallbackOf(result, content)

\* A fenced block with malformed content was parsed and the record returned.
C6_Witness ==
    /\ pc = "returned"
    /\ ~Decoded.ok
    /\ json_str # <<>>
    /\ json_str # content
    /\ result["simple_explanation"] = Str(Concat(content))

\* C7: a reply that is the JSON encoding of a full payload is recovered field
\* by field, key_concepts in order and with its duplicates, except
\* equation_name and equation, which are the request's.
C7_RoundTrip ==
    \A d \in FullPayloads :
        (ParseRan /\ content = JsonDumps(Dict(d)))
        => /\ pc # "raised"
           /\ \A k \in DOMAIN d \ {"equation_name", "equation"} : explanation_data[k] = d[k]
           /\ explanation_data["equation"] = Str(request.equation)
           /\ explanation_data["equation_name"] \in {request.equation_name, FixedLabel}

\* Some opening marker of the raw text is followed by a closing marker.
HasFencedBlock(c) ==
    \E i \in 1..Len(c), j \in 1..Len(c) : IsOpenAt(c, i) /\ j >= i + 3 /\ IsCloseAt(c, j)

\* C8: the candidate payload is the text between the markers of a fenced JSON
\* block when the raw text has one, the entire raw text otherwise, and it is
\* this payload that is decoded.
C8_PayloadSelection ==
    ParseRan =>
       /\ IF HasFencedBlock(content)
          THEN \E i \in 1..Len(content), j \in 1..Len(content) :
                  /\ IsOpenAt(content, i) /\ j >= i + 3 /\ IsCloseAt(content, j)
                  /\ json_str = SubSeq(content, i + 3, j - 1)
          ELSE json_str = content
       /\ ParseReturned =>
              IF Decoded.ok
              THEN /\ IsDict(Decoded.val)
                   /\ \A k \in DOMAIN Decoded.val.o : explanation_data[k] = Decoded.val.o[k]
              ELSE IsFallbackOf(explanation_data, content)
       /\ ~ParseReturned => Decoded.ok /\ ~IsDict(Decoded.val)

\* A block with prose before and after it was decoded and its fields returned.
C8_Witness ==
    /\ pc = "returned"
    /\ content # <<>>
    /\ content[1] = "Here is the explanation:"
    /\ content[Len(content)] = "Hope this helps"
    /\ Decoded.ok
    /\ result["simple_explanation"] = Str("Simple test")

\* C9: an invocation has made no call to the collaborator before the call
\* step and exactly one from then on, however it ends; it starts with nothing
\* of an earlier invocation.
C9_ExactlyOneCall ==
    /\ Len(calls) = IF pc \in {"idle", "prompted"} THEN 0 ELSE 1
    /\ pc = "prompted" => content = <<>> /\ explanation_data = EmptyDict /\ result = NoResult

\* An invocation whose reply could not be decoded returned after its one call.
C9_Witness ==
    /\ pc = "returned"
    /\ ~Decoded.ok
    /\ Len(calls) = 1

\* C10: when the collaborator raised, the invocation has raised that very
\* error after its single call: the parser has not run and there is no record.
C10_UpstreamErrorSurfaced ==
    (calls # <<>> /\ calls[Len(calls)].outcome \in UpstreamErrors)
    => /\ pc = "raised"
       /\ error = calls[Len(calls)].outcome
       /\ Len(calls) = 1
       /\ json_str = <<>>
       /\ explanation_data = EmptyDict
       /\ result = NoResult

\* The collaborator raised and the invocation raised the same error.
C10_Witness ==
    /\ pc = "raised"
    /\ error = "RateLimitError"
    /\ calls[1].outcome = "RateLimitError"

\* The two-message conversation of a call: the fixed system instruction, then
\* a user message that is the prompt p.
Conversation(p) ==
    <<[role |-> "system",
       content |-> <<"You are an expert physics teacher. Explain equations clearly and accurately.">>],
      [role |-> "user", content |-> p]>>

\* C11: the steps of explain_equation come in the order build prompt, call the
\* collaborator, parse, return: the prompt is built from the request before any
\* call; the call carries the system instruction, then the built prompt as the
\* user message, at temperature 0.7; the parser gets the text the call returned
\* and the same request; a record is returned only after the parser.
C11_StepOrder ==
    [][/\ pc' = "prompted" =>
              pc = "idle" /\ prompt' = BuildPrompt(request') /\ calls' = <<>>
       /\ pc' = "completed" =>
              /\ pc = "prompted"
              /\ request' = request /\ prompt' = prompt
              /\ Len(calls') = 1
              /\ calls'[1].messages = Conversation(BuildPrompt(request))
              /\ calls'[1].temperature = "0.7"
       /\ pc' = "parsed" =>
              /\ pc = "completed"
              /\ request' = request /\ content' = content /\ calls' = calls
              /\ calls[1].outcome = "text"
              /\ explanation_data' =
                     ReturnedDict(request, DecodeOrFallback(JsonStr(content), content).o)
       /\ pc' = "returned" =>
              /\ pc = "parsed"
              /\ request' = request /\ content' = content
              /\ explanation_data' = explanation_data
              /\ result' = EquationExplanation(explanation_data)
      ]_vars

\* An invocation went through the four steps and returned the decoded record.
C11_Witness ==
    /\ pc = "returned"
    /\ calls[1].messages[2].content = prompt
    /\ prompt # <<>>
    /\ Truthy(request.equation_name)
    /\ Decoded.ok
    /\ result["key_concepts"] = List(<<Str("force"), Str("mass")>>)

\* The levels the documentation of difficulty_level names.
NamedLevels == {"beginner", "intermediate", "advanced"}

\* C12: a request that was constructed has one of the three difficulty levels,
\* and an ExplanationRequest(...) given any other difficulty value is rejected.
C12_DifficultyEnumerated ==
    /\ constructed.state = "ok" => constructed.req.difficulty_level \in NamedLevels
    /\ (constructed.state # "none" /\ "difficulty_level" \in DOMAIN constructed.kwargs
          /\ constructed.kwargs["difficulty_level"] \notin {Str(l) : l \in NamedLevels})
       => constructed.state = "rejected"

\* C13: a request that was constructed has a non-empty equation, and an
\* ExplanationRequest(...) without equation or with the empty text is rejected.
C13_EquationNonEmpty ==
    /\ constructed.state = "ok" => constructed.req.equation # ""
    /\ (constructed.state # "none"
          /\ ("equation" \notin DOMAIN constructed.kwargs
                \/ constructed.kwargs["equation"] = Str("")))
       => constructed.state = "rejected"

\* The parts of a text.
Parts(p) == {p[i] : i \in 1..Len(p)}

\* Part a is directly followed by part b somewhere in p.
Follows(p, a, b) == \E i \in 1..(Len(p) - 1) : p[i] = a /\ p[i + 1] = b

BeginnerText == "Use simple language and avoid advanced terminology. Focus on intuition."
IntermediateText == "Balance simplicity with technical accuracy. Include mathematical details."
AdvancedText == "Use precise technical language and advanced concepts. Dive deep into applications."

GuidanceTexts == {BeginnerText, IntermediateText, AdvancedText}

\* The prompt of the invocation under way was built.
PromptBuilt == pc \in {"prompted", "completed", "parsed", "returned", "raised"}

\* C14: the prompt built for a request of level beginner, intermediate or
\* advanced holds the guidance text of that level and of no other, and states
\* the level.
C14_GuidanceOfLevel ==
    (PromptBuilt /\ request.difficulty_level \in NamedLevels)
    => LET text == CASE request.difficulty_level = "beginner" -> BeginnerText
                     [] request.difficulty_level = "intermediate" -> IntermediateText
                     [] request.difficulty_level = "advanced" -> AdvancedText
       IN  /\ Follows(prompt, "\nGuidance: ", text)
           /\ Parts(prompt) \intersect GuidanceTexts = {text}
           /\ Follows(prompt, "\n\nDifficulty Level: ", request.difficulty_level)

\* A prompt was built for the advanced level and sent as the user message.
C14_Witness ==
    /\ pc = "completed"
    /\ request.difficulty_level = "advanced"
    /\ AdvancedText \in Parts(prompt)
    /\ calls[1].messages[2].content = prompt

\* C15: for a difficulty value that is none of the three, whatever its case,
\* the prompt is built and holds the intermediate guidance text and no other.
C15_UnknownLevelIntermediate ==
    (PromptBuilt /\ request.difficulty_level \notin NamedLevels)
    => /\ prompt # <<>>
       /\ Follows(prompt, "\nGuidance: ", IntermediateText)
       /\ Parts(prompt) \intersect GuidanceTexts = {IntermediateText}

\* A prompt was built for the level written with a capital.
C15_Witness ==
    /\ PromptBuilt
    /\ request.difficulty_level = "Beginner"
    /\ IntermediateText \in Parts(prompt)

\* C17: the prompt holds the equation, the request for the JSON format and the
\* instruction to return only JSON; it holds the Equation Name line exactly
\* when the request has a non-empty name, and the Context line exactly when
\* it has a non-empty context.
C17_PromptContents ==
    PromptBuilt =>
       /\ Follows(prompt, "Explain the following physics equation in detail:\n\nEquation: ",
                  request.equation)
       /\ Follows(prompt, "\n\nPlease provide your response in the following JSON format:\n",
                  SchemaText)
       /\ prompt[Len(prompt)] = "\n\nReturn ONLY valid JSON, no additional text."
       /\ "\nEquation Name: " \in Parts(prompt)
              <=> (request.equation_name # None /\ request.equation_name # Str(""))
       /\ request.equation_name \notin {None, Str("")}
              => Follows(prompt, "\nEquation Name: ", request.equation_name.s)
       /\ "\nContext: " \in Parts(prompt)
              <=> (request.context # None /\ request.context # Str(""))
       /\ request.context \notin {None, Str("")}
              => Follows(prompt, "\nContext: ", request.context.s)

\* A prompt was built for a request with an empty name and a context.
C17_Witness ==
    /\ PromptBuilt
    /\ request.equation_name = Str("")
    /\ request.context = Str("Classical mechanics")
    /\ "\nEquation Name: " \notin Parts(prompt)
    /\ Follows(prompt, "\nContext: ", "Classical mechanics")

\* C18: every call of get_available_equations yields the same ordered list of
\* ten names, with Newton's Second Law and Einstein's Mass-Energy Equivalence
\* in it, whatever was constructed, explained or parsed before, and the call
\* changes nothing else and calls no collaborator.
C18_FixedCatalogue ==
    [][available' # available =>
          /\ Len(available') = 10
          /\ available'[1] = "Newton's Second Law"
          /\ available'[2] = "Einstein's Mass-Energy Equivalence"
          /\ available'[10] = "Coulomb's Law"
          /\ Cardinality(Parts(available')) = 10
          /\ available' = AvailableEquations
          /\ UNCHANGED <<driver_vars, model, pc, request, prompt, calls, content, json_str,
                         explanation_data, result, error, api_key, env_key, constructed>>
      ]_vars

\* The list was obtained by a caller that holds a request it constructed.
C18_Witness ==
    /\ Len(available) = 10
    /\ constructed.state = "ok"
    /\ constructed.req.equation = "F = ma"

\* C19: once constructed, with or without an api_key, the explainer's model
\* identifier is gemini-2.5-flash, and so is the model of every call made.
C19_ModelIdentifier ==
    pc # "start" =>
       /\ model = "gemini-2.5-flash"
       /\ \A i \in 1..Len(calls) : calls[i].model = "gemini-2.5-flash"

\* C20: no explainer exists that was constructed without an api_key while
\* GOOGLE_API_KEY was unset.
C20_KeyRequired ==
    ~(pc # "start" /\ api_key = None /\ env_key = None)

\* C21: with two invocations on one explainer interleaved in any way, the
\* model identifier stays what __init__ set; the one call of an invocation
\* carries the prompt of its own request; and an invocation that has ended
\* has the record or the error that explain_equation gives, run alone, for its
\* own request and for what its own call returned or raised.
C21_NoSharedState ==
    /\ model = "gemini/gemini-2.5-flash"
    /\ \A t \in Callers :
          LET l == inv[t] IN
          /\ l.pc \notin {"idle", "prompted"} =>
                 /\ Len(l.calls) = 1
                 /\ l.calls[1].messages = Conversation(BuildPrompt(l.request))
          /\ l.pc \in {"returned", "raised"} =>
                 LET alone == ExplainEquationOutcome(l.request, l.calls[1].outcome) IN
                 /\ alone.raised <=> l.pc = "raised"
                 /\ alone.raised => l.error = alone.error
                 /\ ~alone.raised => l.result = alone.result

\* Both invocations, of different requests and with different replies, are
\* past their calls at once, and one has returned its record.
C21_Witness ==
    /\ inv[1].pc = "returned"
    /\ inv[2].pc \in {"completed", "raised"}
    /\ inv[1].request # inv[2].request
    /\ inv[1].content # inv[2].content
    /\ inv[1].result["equation"] = Str(inv[1].request.equation)

\* C22: a request constructed with only the equation has difficulty_level
\* intermediate and neither name nor context; whatever is given for a field is
\* the value the request holds, and a field left out has its default.
C22_RequestDefaults ==
    constructed.state = "ok" =>
       LET kw == constructed.kwargs
           req == constructed.req
       IN  /\ DOMAIN kw = {"equation"} =>
                  /\ req.difficulty_level = "intermediate"
                  /\ req.equation_name = None
                  /\ req.context = None
           /\ Str(req.equation) = kw["equation"]
           /\ \A f \in DOMAIN kw \intersect {"equation_name", "context"} : req[f] = kw[f]
           /\ "difficulty_level" \in DOMAIN kw => Str(req.difficulty_level) = kw["difficulty_level"]
           /\ "difficulty_level" \notin DOMAIN kw => req.difficulty_level = "intermediate"
           /\ \A f \in {"equation_name", "context"} \ DOMAIN kw : req[f] = None

\* A request was constructed with an empty name and a level given, context left out.
C22_Witness ==
    /\ constructed.state = "ok"
    /\ DOMAIN constructed.kwargs = {"equation", "equation_name", "difficulty_level"}
    /\ constructed.kwargs["equation_name"] = Str("")
    /\ constructed.req.equation_name = Str("")
    /\ constructed.req.difficulty_level = "advanced"
    /\ constructed.req.context = None

\* C23: EquationExplanation(...) yields a record only when equation_name,
\* equation, simple_explanation, detailed_explanation, real_world_example and
\* key_concepts are all given, and fails with a validation error when one of
\* them is left out; the six alone suffice, key_concepts being empty or not;
\* a record that exists holds a value for each of the six.
C23_RequiredFields ==
    (built.state # "none" /\ built.class = "EquationExplanation") =>
       /\ built.state = "ok" =>
              /\ RequiredFields \subseteq DOMAIN built.kwargs
              /\ \A k \in RequiredFields :
                     built.record[k] # None /\ built.record[k] = built.kwargs[k]
       /\ ~(RequiredFields \subseteq DOMAIN built.kwargs) => built.state = "rejected"
       /\ (DOMAIN built.kwargs = RequiredFields
             /\ (\A k \in TextFields : IsStr(built.kwargs[k]))
             /\ IsStrList(built.kwargs["key_concepts"]))
          => built.state = "ok" /\ built.record["introduction"] = None

\* A record was built from the six fields alone, with no key concept.
C23_Witness ==
    /\ built.state = "ok"
    /\ built.class = "EquationExplanation"
    /\ DOMAIN built.kwargs = RequiredFields
    /\ built.record["key_concepts"] = List(<<>>)
    /\ built.record["introduction"] = None

\* The print_section calls made so far, in order.
SectionsShown == SelectSeq(stdout, LAMBDA x : x.out = "section")

SectionTitles == [i \in 1..Len(SectionsShown) |-> SectionsShown[i].title]

\* The process has ended: main returned or sys.exit was called.
Ended == cli_pc \in {"returned", "exited"}

\* C24: the explain sub-command, the collaborator having a well-formed payload
\* ready, ends with the five sections Equation, Simple Explanation, Detailed
\* Explanation, Real-World Example, Key Concepts shown in this order, the key
\* concepts joined with a comma and a space, and not with exit status 1.
C24_ExplainRenders ==
    (Ended /\ ran # <<>> /\ ran[1].func = "explain_equation" /\ ran[1].via = "args.func"
        /\ upstream = Returned(TestPayload))
    => /\ exit_status # 1
       /\ SectionTitles = <<"Equation", "Simple Explanation", "Detailed Explanation",
                            "Real-World Example", "Key Concepts">>
       /\ SectionsShown[5].body = <<"force, mass">>

\* The command line has the markdown option.
MarkdownGiven == \E i \in 1..Len(argv) : argv[i] \in {"-m", "--md"}

\* The handler of the analyze command was entered: it is under way, or it has
\* ended, by a return or by an exit.
Analyzing ==
    \/ /\ cli_pc # "handlers"
       /\ todo # <<>> /\ Head(todo).func = "comprehensive_equation_analysis"
    \/ ran # <<>> /\ ran[1].func = "comprehensive_equation_analysis"

\* The names of the four sections, in the order of the handler.
AnalysisOrder == <<"introduction", "history", "derivation", "applications">>

\* The path given with the markdown option of the command line.
MarkdownPath == ParseArgs(argv).ns["md"].s

\* The output function that fails is one the analysis of this command line
\* calls.
OutputFails ==
    fault.func \in (IF MarkdownGiven
                    THEN {"generate_four_section_markdown", "save_markdown_file"}
                    ELSE {"print_section"})

\* The sections on the console when the output ends: all four, or those
\* before the call of print_section that fails.
ConsoleSections(n) ==
    [k \in 1..n |-> PrintSection(<<"Introduction", "History", "Derivation",
                                   "Applications">>[k], sections[k])]

BareName == cli_pc # "start" /\ argv # <<>> /\ argv[1] \notin KnownCommands
            /\ argv[1] \notin DashArguments

\* C26: for a bare equation name the handlers run in the order explain,
\* history, derivation; one has run only if every one before it ended without
\* error; a handler that failed is the last one run and the process has
\* ended with exit status 1.
C26_StepsInOrder ==
    BareName =>
       /\ Len(ran) <= 3
       /\ \A i \in 1..Len(ran) :
             /\ ran[i].func = <<"explain_equation", "history_equation",
                                "derivation_equation">>[i]
             /\ i < Len(ran) => ran[i].outcome = "ok"
             /\ ran[i].outcome = "failed" => cli_pc = "exited" /\ exit_status = 1
       /\ [i \in 1..Len(todo) |-> todo[i].func]
              = SubSeq(<<"explain_equation", "history_equation", "derivation_equation">>,
                       Len(ran) + 1, 3)
       /\ cli_pc = "returned" => Len(ran) = 3

\* The explain step of a bare equation name failed: the process has ended with
\* status 1, history and derivation not run.
C26_Witness ==
    /\ BareName
    /\ ran = <<[func |-> "explain_equation", via |-> "handle_equation_input",
                outcome |-> "failed"]>>
    /\ exit_status = 1
    /\ cli_pc = "exited"
    /\ Len(todo) = 2
    /\ Len(explained) = 1

\* C27: when explain, history or derivation has failed, the last thing shown
\* is its error message, the exit status is 1 and no markdown file was saved;
\* a markdown file was saved by one of them only with the option given on the
\* command line, the handler ended without error and its five sections shown.
C27_ErrorExitNoFile ==
    \A i \in 1..Len(ran) :
        ran[i].func \in DOMAIN SectionHandlers =>
           /\ ran[i].outcome = "failed" =>
                  /\ cli_pc = "exited"
                  /\ exit_status = 1
                  /\ stdout[Len(stdout)].out = "error"
                  /\ stdout[Len(stdout)].message[1] = SectionHandlers[ran[i].func].failure
                  /\ saved = <<>>
           /\ saved # <<>> =>
                  /\ MarkdownGiven /\ parsed
                  /\ ran[i].outcome = "ok"
                  /\ Len(SectionsShown) = 5

\* history with --md failed: the error shown, status 1, no file.
C27_Witness ==
    /\ argv = <<"history", "Wave Equation", "--md", "out.md">>
    /\ ran = <<[func |-> "history_equation", via |-> "args.func", outcome |-> "failed"]>>
    /\ stdout[Len(stdout)].out = "error"
    /\ exit_status = 1
    /\ saved = <<>>

\* C28: a first argument that is no known command and does not start with "-"
\* is handled without the parser and without a handler called through it;
\* no argument at all gives the help and exit status 0; a known command whose
\* arguments the parser accepts runs one handler, the one registered for it.
C28_Dispatch ==
    cli_pc # "start" =>
       /\ BareName =>
              /\ ~parsed
              /\ \A i \in 1..Len(ran) : ran[i].via = "handle_equation_input"
              /\ \A i \in 1..Len(todo) : todo[i].via = "handle_equation_input"
       /\ argv = <<>> =>
              /\ parsed /\ ran = <<>> /\ todo = <<>>
              /\ stdout = <<PrintLine(<<"help">>)>>
              /\ cli_pc = "exited" /\ exit_status = 0
       /\ (argv # <<>> /\ argv[1] \in KnownCommands) =>
              /\ parsed
              /\ \A i \in 1..Len(ran) :
                    ran[i].func = RegisteredHandler[argv[1]] /\ ran[i].via = "args.func"
              /\ Len(ran) + Len(todo) <= 1
              /\ ~ParseArgs(argv).exit =>
                    /\ Len(ran) + Len(todo) = 1
                    /\ Ended => Len(ran) = 1
              /\ ParseArgs(argv).exit => ran = <<>> /\ todo = <<>>

\* The analyze command was dispatched to its handler, which has ended.
C28_Witness ==
    /\ argv = <<"analyze", "F = ma">>
    /\ parsed
    /\ cli_pc = "returned"
    /\ ran = <<[func |-> "comprehensive_equation_analysis", via |-> "args.func",
                outcome |-> "ok"]>>

\* The decoded payload has an entry for equation_name.
PayloadNames == Decoded.ok /\ IsDict(Decoded.val) /\ "equation_name" \in DOMAIN Decoded.val.o

\* C29: for a request whose equation_name is the empty text, as for one that
\* has none, the name _parse_response takes from the request is the label
\* Physics Equation: the dict returned has this label unless the decoded payload
\* has an equation_name of its own, so an empty name in it is the payload's.
C29_EmptyNameIsLabel ==
    (ParseReturned /\ request.equation_name \in {None, Str("")}) =>
       /\ ~PayloadNames => explanation_data["equation_name"] = Str("Physics Equation")
       /\ PayloadNames => explanation_data["equation_name"] = Decoded.val.o["equation_name"]
       /\ explanation_data["equation_name"] = Str("") =>
              PayloadNames /\ Decoded.val.o["equation_name"] = Str("")

\* A request with the empty name and a reply without a name gave the label.
C29_Witness ==
    /\ pc = "returned"
    /\ request.equation_name = Str("")
    /\ Decoded.ok
    /\ ~PayloadNames
    /\ result["equation_name"] = Str("Physics Equation")

\* The places of the opening markers of the raw text, and of the closing
\* markers that can end a block opened at i.
Opens(c) == {i \in 1..Len(c) : IsOpenAt(c, i)}
Closes(c, i) == {j \in (i + 3)..Len(c) : IsCloseAt(c, j)}

\* C30: of several fenced JSON blocks only the first is the candidate payload,
\* from its opening marker to the nearest closing marker after it; when it
\* does not decode, the outcome is the fallback over the entire raw text,
\* whatever a later block holds; a raw text with no json-tagged opening marker
\* is the candidate payload as a whole.
C30_FirstBlockOnly ==
    ParseRan =>
       /\ (Opens(content) # {} /\ Closes(content, Min(Opens(content))) # {}) =>
              LET i == Min(Opens(content))
                  j == Min(Closes(content, i))
              IN  /\ json_str = SubSeq(content, i + 3, j - 1)
                  /\ ~Decoded.ok => /\ pc # "raised"
                                    /\ IsFallbackOf(explanation_data, content)
       /\ Opens(content) = {} => json_str = content

\* Two blocks, the first malformed and the second a full payload: the record
\* returned is the fallback over the raw text.
C30_Witness ==
    /\ pc = "returned"
    /\ Cardinality(Opens(content)) = 2
    /\ ~Decoded.ok
    /\ JsonLoads(SubSeq(content, Len(content) - Len(TestPayload) - 1, Len(content) - 2)).ok
    /\ result["simple_explanation"] = Str(Concat(content))
    /\ result["key_concepts"] = List(<<>>)

====
